---- MODULE Spec2Model ----
(***************************************************************************)
(* Model of book000/update-softwares: the GitHubIssue class of             *)
(* src/src/__init__.py (row parser, body builder, atomic_update_with_retry *)
(* and update_software_update_row) and the remote issue body it edits.     *)
(*                                                                         *)
(* A Python string is modelled as a sequence of tokens.  The tokens that   *)
(* the code's regular expression, split() and strip() look at (space,      *)
(* pipe, newline, the literals of the address comment) are single tokens;  *)
(* every other token stands for a run of ordinary characters.              *)
(***************************************************************************)
EXTENDS Integers, Sequences, FiniteSets, TLC

SP == " "
PIPE == "|"
NL == "\n"
OPEN == "<!-- update-softwares#"
HASH == "#"
CLOSE == "-->"

\* F applied to the value of e: e is evaluated once, where a LET definition is
\* evaluated again at each of its uses
Let(e, F(_)) == CHOOSE r \in { F(v) : v \in { e } } : TRUE

\* s.split(sep) for a one-token separator: always at least one piece; piece k
\* lies between the (k-1)-th and the k-th occurrence of sep; at lists these
\* positions, with 0 and Len(s) + 1 for the two ends
Split(s, sep) ==
  Let(s, LAMBDA v :
  Let(<< 0 >> \o SelectSeq([ i \in 1..Len(v) |-> i ], LAMBDA i : v[i] = sep)
             \o << Len(v) + 1 >>,
      LAMBDA at : [ k \in 1..(Len(at) - 1) |-> SubSeq(v, at[k] + 1, at[k + 1] - 1) ]))

\* sep.join(parts)
RECURSIVE Join(_, _)
Join(parts, sep) ==
  IF parts = << >> THEN << >>
  ELSE IF Len(parts) = 1 THEN parts[1]
  ELSE parts[1] \o sep \o Join(Tail(parts), sep)

\* s.strip(): leading and trailing whitespace removed
RECURSIVE Strip(_)
Strip(s) ==
  IF s = << >> THEN s
  ELSE IF Head(s) = SP THEN Strip(Tail(s))
  ELSE IF s[Len(s)] = SP THEN Strip(SubSeq(s, 1, Len(s) - 1))
  ELSE s

\* status_mapping: the glyph of each known status (the emoji are named in ASCII)
status_mapping ==
  [ success |-> << "CHECK" >>, running |-> << "HOURGLASS" >>, failed |-> << "STOP" >> ]

\* row_regex.match(line): "(?P<markdown>.*) <!-- update-softwares#(?P<computer_name>.+)#(?P<package_manager>.+) -->"
\* anchored at the start of the line only; the three groups are greedy, in
\* this order.  i, j, k are the lengths/positions that delimit the groups.
RegexCands(line) ==
  LET n == Len(line)
      opens == { i \in 0..(n - 2) : line[i + 1] = SP /\ line[i + 2] = OPEN }
      hashes == { j \in 1..n : line[j] = HASH }
      closes == { k \in 1..(n - 1) : line[k] = SP /\ line[k + 1] = CLOSE }
  IN  { c \in opens \X hashes \X closes : c[2] >= c[1] + 4 /\ c[3] >= c[2] + 2 }

NoMatch == [ matched |-> FALSE ]

Max(S) == CHOOSE x \in S : \A y \in S : y <= x

row_regex_match(line) ==
  Let(RegexCands(line), LAMBDA cands :
      IF cands = {} THEN NoMatch
      ELSE Let(Max({ c[1] : c \in cands }), LAMBDA i :
           Let(Max({ c[2] : c \in { d \in cands : d[1] = i } }), LAMBDA j :
           Let(Max({ c[3] : c \in { d \in cands : d[1] = i /\ d[2] = j } }), LAMBDA k :
               [ matched |-> TRUE,
                 markdown |-> SubSeq(line, 1, i),
                 computer_name |-> SubSeq(line, i + 3, j - 1),
                 package_manager |-> SubSeq(line, j + 1, k - 1) ]))))

\* f" <!-- update-softwares#{computer_name}#{package_manager} -->"
AddressComment(computer_name, package_manager) ==
  << SP, OPEN >> \o computer_name \o << HASH >> \o package_manager \o << SP, CLOSE >>

\* the join with the empty cells left out
EncodeRaw_SkipEmpty(cells) ==
  << PIPE, SP >> \o Join(SelectSeq(cells, LAMBDA c : c # << >>), << SP, PIPE, SP >>)
                \o << SP, PIPE >>

\* "| " + " | ".join(cells) + " |"
EncodeRaw(cells) ==
  << PIPE, SP >> \o Join(cells, << SP, PIPE, SP >>) \o << SP, PIPE >>

\* one iteration of the parsing loop: the rows contributed by one line
ParseLine(line) ==
  Let(row_regex_match(line), LAMBDA m :
      IF ~m.matched THEN << >>
      ELSE Let(Split(m.markdown, PIPE), LAMBDA split_markdown :
               IF Len(split_markdown) # 8 THEN << >>
               ELSE << [ markdown |->
                           [ checkmark |-> Strip(split_markdown[2]),
                             computer_name |-> Strip(split_markdown[3]),
                             operation_system |-> Strip(split_markdown[4]),
                             package_manager |-> Strip(split_markdown[5]),
                             upgraded |-> Strip(split_markdown[6]),
                             failed |-> Strip(split_markdown[7]),
                             raw |-> m.markdown ],
                         computer_name |-> m.computer_name,
                         package_manager |-> m.package_manager ] >>))

RECURSIVE ParseLines(_)
ParseLines(lines) ==
  Let(lines, LAMBDA ls :
      IF ls = << >> THEN << >>
      ELSE ParseLine(Head(ls)) \o ParseLines(Tail(ls)))

\* GitHubIssue._get_software_update_rows_from_body
get_software_update_rows_from_body(body) == ParseLines(Split(body, NL))

\* the inner loop of the builder: the first row with the line's address
FirstIndex(software_updates, computer_name, package_manager) ==
  LET hits == { i \in 1..Len(software_updates) :
                  /\ software_updates[i].computer_name = computer_name
                  /\ software_updates[i].package_manager = package_manager }
  IN  IF hits = {} THEN 0
      ELSE CHOOSE i \in hits : \A h \in hits : i <= h

\* one iteration of the builder's outer loop: the lines emitted for one line
BuildLine(row, software_updates) ==
  Let(row_regex_match(row), LAMBDA m :
      IF ~m.matched THEN << row >>
      ELSE Let(FirstIndex(software_updates, m.computer_name, m.package_manager), LAMBDA idx :
               IF idx = 0 THEN << >>
               ELSE << software_updates[idx].markdown.raw
                         \o AddressComment(m.computer_name, m.package_manager) >>))

RECURSIVE BuildLines(_, _)
BuildLines(rows, software_updates) ==
  Let(rows, LAMBDA rs :
      IF rs = << >> THEN << >>
      ELSE BuildLine(Head(rs), software_updates) \o BuildLines(Tail(rs), software_updates))

\* GitHubIssue._build_updated_body
build_updated_body(body, software_updates) ==
  Join(BuildLines(Split(body, NL), software_updates), << NL >>)


(***************************************************************************)
(* Documents                                                               *)
(***************************************************************************)

\* a table row as the issue's author writes it, followed by its address comment
RowLine(checkmark, computer_name, operation_system, package_manager, upgraded, failed) ==
  EncodeRaw(<< checkmark, computer_name, operation_system, package_manager, upgraded, failed >>)
    \o AddressComment(computer_name, package_manager)

HeaderLine == << "#", SP, "Update", SP, "Status" >>
FooterLine == << "End", SP, "of", SP, "document" >>
RowH1 == RowLine(<< "HOURGLASS" >>, << "H1" >>, << "Linux" >>, << "apt" >>, << "0" >>, << "0" >>)
RowH2 == RowLine(<< "CHECK" >>, << "H2" >>, << "Linux" >>, << "apt" >>, << "5" >>, << "0" >>)
\* a tagged line with 4 cells instead of 6
LegacyH3 ==
  << PIPE, SP, "STOP", SP, PIPE, SP, "H3", SP, PIPE, SP, "1", SP, PIPE, SP, "1", SP, PIPE >>
    \o AddressComment(<< "H3" >>, << "apt" >>)

\* the issue bodies the store starts with
InitialBodies ==
  { Join(<< HeaderLine, RowH1, RowH2, FooterLine >>, << NL >>),
    Join(<< HeaderLine, RowH2 >>, << NL >>),
    Join(<< RowH1, LegacyH3, RowH2 >>, << NL >>) }

(***************************************************************************)
(* The coordinator: one GitHubIssue instance per machine, one shared issue *)
(***************************************************************************)

\* the machines, named by get_real_hostname()
Machines == { "H1", "H2" }
MaxRetries == 3
\* in tenths of a second
RETRY_SLEEP_MULTIPLIER == 5

\* the (status, upgraded, failed) of one update request: the three statuses of
\* status_mapping with counts as the workers pass them, and a status outside it
UpdateInputs ==
  { << "running", << >>, << >> >>,
    << "success", << "5" >>, << "0" >> >>,
    << "failed", << >>, << "1" >> >>,
    << "pending", << "5" >>, << >> >> }
RetryInputs == 0..MaxRetries
\* the store answers at most MaxFaults requests of a run with a failure
MaxFaults == MaxRetries

OkResponse == [ status_code |-> 200, text |-> "OK" ]
GetResponses == { OkResponse, [ status_code |-> 500, text |-> "Internal Server Error" ] }
PatchResponses ==
  { OkResponse,
    [ status_code |-> 409, text |-> "Conflict" ],
    [ status_code |-> 500, text |-> "Internal Server Error" ] }

VARIABLES
  issue_body,               \* the body of the GitHub issue (the remote store)
  pc,                       \* per machine: "idle", "get", "patch", "sleep", "done"
  args,                     \* per machine: the arguments of the call in progress
  retry_count,              \* per machine: the loop variable of atomic_update_with_retry
  current_body,             \* per machine: local of atomic_update_with_retry
  current_software_updates, \* per machine: local of atomic_update_with_retry
  new_body,                 \* per machine: local of atomic_update_with_retry
  body,                     \* per machine: self.body
  initial_body_state,       \* per machine: self.initial_body_state
  software_updates,         \* per machine: self.software_updates
  result,                   \* per machine: what the call returned or raised
  log,                      \* per machine: the requests and sleeps of the call, in order
  faults,                   \* the number of requests the store has failed so far
  max_retries               \* the max_retries argument the callers of this run pass

coordVars ==
  << issue_body, pc, args, retry_count, current_body, current_software_updates,
     new_body, body, initial_body_state, software_updates, result, log, faults,
     max_retries >>

\* the state of the parser and builder when they are exercised on their own
VARIABLES
  doc,       \* the body passed to the parser and to the builder
  rows,      \* the parsed rows, possibly with one row mutated
  mutated,   \* whether a row of rows was mutated
  rebuilt,   \* the body returned by the builder
  stage      \* "off", "start", "parsed", "built"

pureVars == << doc, rows, mutated, rebuilt, stage >>

PureOff ==
  /\ doc = << >>
  /\ rows = << >>
  /\ mutated = FALSE
  /\ rebuilt = << >>
  /\ stage = "off"

\* the state of the row codec when one row is encoded and decoded on its own
VARIABLES
  src_row,      \* the row to encode
  rendered,     \* the line the row is rendered to
  decoded,      \* the rows the parser decodes from that line
  codec_stage   \* "off", "row", "encoded", "decoded"

codecVars == << src_row, rendered, decoded, codec_stage >>

CodecOff ==
  /\ src_row = << >>
  /\ rendered = << >>
  /\ decoded = << >>
  /\ codec_stage = "off"

\* the state of one run of the program on one host: main and the worker it calls
VARIABLES
  environment,          \* "Linux" or "Windows": what is_linux() and is_windows() tell
  root,                 \* what is_root() tells
  listed,               \* what get_package_managers(hostname) returned
  package_managers,     \* the entries of main's loop that are still to be processed
  wpc,                  \* the position of the process in main or in a worker's run()
  trace,                \* the coordinator calls, commands and log records so far
  to_upgrade,           \* apt run(): len(to_upgrade)
  to_install_or_remove, \* apt run(): to_install or to_remove is not empty
  upgrade_result,       \* apt run(): the value of run_apt_full_upgrade()
  upgraded_to_upgrade,  \* apt run(): len(upgraded_to_upgrade)
  frame                 \* the local variables of the helper function last called

workerVars ==
  << environment, root, listed, package_managers, wpc, trace, to_upgrade,
     to_install_or_remove, upgrade_result, upgraded_to_upgrade, frame >>

\* no helper function was called
NoFrame == [ fn |-> "none" ]

WorkerOff ==
  /\ environment = "Linux"
  /\ root = FALSE
  /\ listed = << >>
  /\ package_managers = << >>
  /\ wpc = "off"
  /\ trace = << >>
  /\ to_upgrade = 0
  /\ to_install_or_remove = FALSE
  /\ upgrade_result = FALSE
  /\ upgraded_to_upgrade = 0
  /\ frame = NoFrame

\* the variables an action of one part of the model leaves alone
notCoordVars == << pureVars, codecVars, workerVars >>
notPureVars == << coordVars, codecVars, workerVars >>
notCodecVars == << coordVars, pureVars, workerVars >>
notWorkerVars == << coordVars, pureVars, codecVars >>

NoArgs == [ op |-> "none" ]
NoResult == [ kind |-> "none" ]
Returned(v) == [ kind |-> "return", value |-> v ]
Raised(msg, text) == [ kind |-> "raise", msg |-> msg, text |-> text ]

\* GitHubIssue.__init__ on every machine, against the same initial issue
Constructed(b) ==
  /\ issue_body = b
  /\ pc = [ m \in Machines |-> "idle" ]
  /\ args = [ m \in Machines |-> NoArgs ]
  /\ retry_count = [ m \in Machines |-> 0 ]
  /\ current_body = [ m \in Machines |-> << >> ]
  /\ current_software_updates = [ m \in Machines |-> << >> ]
  /\ new_body = [ m \in Machines |-> << >> ]
  /\ body = [ m \in Machines |-> b ]
  /\ initial_body_state = [ m \in Machines |-> b ]
  /\ software_updates = [ m \in Machines |-> get_software_update_rows_from_body(b) ]
  /\ result = [ m \in Machines |-> NoResult ]
  /\ log = [ m \in Machines |-> << >> ]

InitCoord ==
  /\ \E b \in InitialBodies : Constructed(b)
  /\ faults = 0
  /\ max_retries \in RetryInputs

\* the assignments to the cells without the re-rendering of raw
MutateRow_StaleRaw(software_update, checkmark, upgraded, failed) ==
  LET md == software_update.markdown
  IN  [ software_update EXCEPT
          !.markdown =
            [ md EXCEPT !.checkmark = checkmark, !.upgraded = upgraded, !.failed = failed ] ]

\* the assignments with the counts added to the cells' text
MutateRow_Accumulate(software_update, checkmark, upgraded, failed) ==
  LET md == software_update.markdown
  IN  [ software_update EXCEPT
          !.markdown =
            [ md EXCEPT
                !.checkmark = checkmark,
                !.upgraded = md.upgraded \o upgraded,
                !.failed = md.failed \o failed,
                !.raw = EncodeRaw(<< checkmark, md.computer_name, md.operation_system,
                                     md.package_manager, md.upgraded \o upgraded,
                                     md.failed \o failed >>) ] ]

\* the assignments to the located row (both update paths share them)
MutateRow(software_update, checkmark, upgraded, failed) ==
  LET md == software_update.markdown
  IN  [ software_update EXCEPT
          !.markdown =
            [ md EXCEPT
                !.checkmark = checkmark,
                !.upgraded = upgraded,
                !.failed = failed,
                !.raw = EncodeRaw(<< checkmark, md.computer_name, md.operation_system,
                                     md.package_manager, upgraded, failed >>) ] ]

\* status_mapping.get(status, status)
StatusMappingGet(status) ==
  IF status \in DOMAIN status_mapping THEN status_mapping[status] ELSE << status >>

\* the "find and update the specific row" loop of atomic_update_with_retry:
\* the first row with the address is mutated; updated = FALSE when there is none
FindAndUpdate(updates, a) ==
  Let(updates, LAMBDA us :
  Let(FirstIndex(us, a.computer_name, a.package_manager), LAMBDA idx :
      IF idx = 0 THEN [ updated |-> FALSE, rows |-> us ]
      ELSE [ updated |-> TRUE,
             rows |-> [ us EXCEPT ![idx] =
                          MutateRow(us[idx], StatusMappingGet(a.status), a.upgraded, a.failed) ] ]))

\* the entry with the loop taken to be range(1, max_retries)
atomic_update_with_retry_ShortRange(m) ==
  /\ pc[m] = "idle"
  /\ \E u \in UpdateInputs :
       /\ args' = [ args EXCEPT ![m] =
                      [ op |-> "atomic_update_with_retry",
                        computer_name |-> << m >>, package_manager |-> << "apt" >>,
                        status |-> u[1], upgraded |-> u[2], failed |-> u[3],
                        max_retries |-> max_retries ] ]
       /\ IF max_retries <= 1
          THEN /\ pc' = [ pc EXCEPT ![m] = "done" ]
               /\ result' = [ result EXCEPT ![m] = Returned(FALSE) ]
          ELSE /\ pc' = [ pc EXCEPT ![m] = "get" ]
               /\ UNCHANGED result
  /\ retry_count' = [ retry_count EXCEPT ![m] = 0 ]
  /\ UNCHANGED << issue_body, current_body, current_software_updates, new_body,
                  body, initial_body_state, software_updates, log, faults, max_retries >>
  /\ UNCHANGED notCoordVars

\* the call with True as the value returned after the loop
atomic_update_with_retry_EmptyLoopTrue(m) ==
  /\ pc[m] = "idle"
  /\ \E u \in UpdateInputs :
       /\ args' = [ args EXCEPT ![m] =
                      [ op |-> "atomic_update_with_retry",
                        computer_name |-> << m >>, package_manager |-> << "apt" >>,
                        status |-> u[1], upgraded |-> u[2], failed |-> u[3],
                        max_retries |-> max_retries ] ]
       /\ IF max_retries <= 0
          THEN /\ pc' = [ pc EXCEPT ![m] = "done" ]
               /\ result' = [ result EXCEPT ![m] = Returned(TRUE) ]
          ELSE /\ pc' = [ pc EXCEPT ![m] = "get" ]
               /\ UNCHANGED result
  /\ retry_count' = [ retry_count EXCEPT ![m] = 0 ]
  /\ UNCHANGED << issue_body, current_body, current_software_updates, new_body,
                  body, initial_body_state, software_updates, log, faults, max_retries >>
  /\ UNCHANGED notCoordVars

\* entry of atomic_update_with_retry: range(max_retries) is empty for max_retries <= 0
atomic_update_with_retry(m) ==
  /\ pc[m] = "idle"
  /\ \E u \in UpdateInputs :
       /\ args' = [ args EXCEPT ![m] =
                      [ op |-> "atomic_update_with_retry",
                        computer_name |-> << m >>, package_manager |-> << "apt" >>,
                        status |-> u[1], upgraded |-> u[2], failed |-> u[3],
                        max_retries |-> max_retries ] ]
       /\ IF max_retries <= 0
          THEN /\ pc' = [ pc EXCEPT ![m] = "done" ]
               /\ result' = [ result EXCEPT ![m] = Returned(FALSE) ]
          ELSE /\ pc' = [ pc EXCEPT ![m] = "get" ]
               /\ UNCHANGED result
  /\ retry_count' = [ retry_count EXCEPT ![m] = 0 ]
  /\ UNCHANGED << issue_body, current_body, current_software_updates, new_body,
                  body, initial_body_state, software_updates, log, faults, max_retries >>
  /\ UNCHANGED notCoordVars

\* the (os_eol, os_eol_critical) the apt worker passes
EolInputs ==
  { << << "2027/04/30" >>, FALSE >>, << << "**2025/12/31**" >>, TRUE >> }

\* atomic_update_with_retry called with the keyword arguments os_eol and
\* os_eol_critical, as the apt worker calls it: the signature (line 62) has no
\* such parameters, so the call raises TypeError before its body runs
atomic_update_with_retry_os_eol(m) ==
  /\ pc[m] = "idle"
  /\ \E u \in UpdateInputs, e \in EolInputs :
       args' = [ args EXCEPT ![m] =
                   [ op |-> "atomic_update_with_retry",
                     computer_name |-> << m >>, package_manager |-> << "apt" >>,
                     status |-> u[1], upgraded |-> u[2], failed |-> u[3],
                     os_eol |-> e[1], os_eol_critical |-> e[2],
                     max_retries |-> max_retries ] ]
  /\ pc' = [ pc EXCEPT ![m] = "done" ]
  /\ result' = [ result EXCEPT ![m] =
                   Raised("TypeError", "unexpected keyword argument 'os_eol'") ]
  /\ UNCHANGED << issue_body, retry_count, current_body, current_software_updates,
                  new_body, body, initial_body_state, software_updates, log, faults,
                  max_retries >>
  /\ UNCHANGED notCoordVars

\* the except clause with the last retry taken to be retry_count = max_retries
HandleException_OffByOne(m, msg, text) ==
  IF retry_count[m] = args[m].max_retries
  THEN /\ pc' = [ pc EXCEPT ![m] = "done" ]
       /\ result' = [ result EXCEPT ![m] = Raised(msg, text) ]
  ELSE /\ pc' = [ pc EXCEPT ![m] = "sleep" ]
       /\ UNCHANGED result

\* the except clause: re-raise on the last retry, otherwise go to sleep
HandleException(m, msg, text) ==
  IF retry_count[m] = args[m].max_retries - 1
  THEN /\ pc' = [ pc EXCEPT ![m] = "done" ]
       /\ result' = [ result EXCEPT ![m] = Raised(msg, text) ]
  ELSE /\ pc' = [ pc EXCEPT ![m] = "sleep" ]
       /\ UNCHANGED result

\* one attempt with a failed fetch raised to the caller at once, whatever the
\* attempts that remain
GetAndBuild_FetchFatal(m) ==
  /\ pc[m] = "get"
  /\ \E response \in GetResponses :
       IF response.status_code # 200
       THEN /\ faults < MaxFaults
            /\ faults' = faults + 1
            /\ log' = [ log EXCEPT ![m] = Append(@, [ op |-> "get", ok |-> FALSE ]) ]
            /\ pc' = [ pc EXCEPT ![m] = "done" ]
            /\ result' = [ result EXCEPT ![m] =
                             Raised("Failed to get issue body", response.text) ]
            /\ UNCHANGED << current_body, current_software_updates, new_body >>
       ELSE \E found \in { FindAndUpdate(get_software_update_rows_from_body(issue_body),
                                             args[m]) } :
                /\ UNCHANGED faults
                /\ log' = [ log EXCEPT ![m] =
                              Append(@, [ op |-> "get", ok |-> TRUE, body |-> issue_body ]) ]
                /\ current_body' = [ current_body EXCEPT ![m] = issue_body ]
                /\ current_software_updates' =
                     [ current_software_updates EXCEPT ![m] = found.rows ]
                /\ IF ~found.updated
                   THEN /\ HandleException(m, "No matching software update row found",
                                           args[m].computer_name[1])
                        /\ UNCHANGED new_body
                   ELSE /\ new_body' = [ new_body EXCEPT ![m] =
                                           build_updated_body(issue_body, found.rows) ]
                        /\ pc' = [ pc EXCEPT ![m] = "patch" ]
                        /\ UNCHANGED result
  /\ UNCHANGED << issue_body, args, retry_count, body, initial_body_state,
                  software_updates, max_retries >>
  /\ UNCHANGED notCoordVars

\* one attempt that locates and mutates the row in the instance's own rows
GetAndBuild_InPlace(m) ==
  /\ pc[m] = "get"
  /\ \E response \in GetResponses :
       IF response.status_code # 200
       THEN /\ faults < MaxFaults
            /\ faults' = faults + 1
            /\ log' = [ log EXCEPT ![m] = Append(@, [ op |-> "get", ok |-> FALSE ]) ]
            /\ HandleException(m, "Failed to get issue body", response.text)
            /\ UNCHANGED << current_body, current_software_updates, new_body,
                            software_updates >>
       ELSE \* found: the rows parsed from the fetched body, with the located row mutated
            \E found \in { FindAndUpdate(get_software_update_rows_from_body(issue_body),
                                             args[m]) } :
                /\ UNCHANGED faults
                /\ log' = [ log EXCEPT ![m] =
                              Append(@, [ op |-> "get", ok |-> TRUE, body |-> issue_body ]) ]
                /\ current_body' = [ current_body EXCEPT ![m] = issue_body ]
                /\ current_software_updates' =
                     [ current_software_updates EXCEPT ![m] = found.rows ]
                /\ software_updates' = [ software_updates EXCEPT ![m] = found.rows ]
                /\ IF ~found.updated
                   THEN /\ HandleException(m, "No matching software update row found",
                                           args[m].computer_name[1])
                        /\ UNCHANGED new_body
                   ELSE /\ new_body' = [ new_body EXCEPT ![m] =
                                           build_updated_body(issue_body, found.rows) ]
                        /\ pc' = [ pc EXCEPT ![m] = "patch" ]
                        /\ UNCHANGED result
  /\ UNCHANGED << issue_body, args, retry_count, body, initial_body_state, max_retries >>
  /\ UNCHANGED notCoordVars

\* one attempt that mutates and builds from the rows parsed at construction
GetAndBuild_CachedRows(m) ==
  /\ pc[m] = "get"
  /\ \E response \in GetResponses :
       IF response.status_code # 200
       THEN /\ faults < MaxFaults
            /\ faults' = faults + 1
            /\ log' = [ log EXCEPT ![m] = Append(@, [ op |-> "get", ok |-> FALSE ]) ]
            /\ HandleException(m, "Failed to get issue body", response.text)
            /\ UNCHANGED << current_body, current_software_updates, new_body >>
       ELSE \* found: the rows parsed from the fetched body, with the located row mutated
            \E found \in { FindAndUpdate(software_updates[m], args[m]) } :
                /\ UNCHANGED faults
                /\ log' = [ log EXCEPT ![m] =
                              Append(@, [ op |-> "get", ok |-> TRUE, body |-> issue_body ]) ]
                /\ current_body' = [ current_body EXCEPT ![m] = issue_body ]
                /\ current_software_updates' =
                     [ current_software_updates EXCEPT ![m] = found.rows ]
                /\ IF ~found.updated
                   THEN /\ HandleException(m, "No matching software update row found",
                                           args[m].computer_name[1])
                        /\ UNCHANGED new_body
                   ELSE /\ new_body' = [ new_body EXCEPT ![m] =
                                           build_updated_body(issue_body, found.rows) ]
                        /\ pc' = [ pc EXCEPT ![m] = "patch" ]
                        /\ UNCHANGED result
  /\ UNCHANGED << issue_body, args, retry_count, body, initial_body_state,
                  software_updates, max_retries >>
  /\ UNCHANGED notCoordVars

\* one attempt up to the PATCH request: __get_issue_body, parse, locate, mutate, build
GetAndBuild(m) ==
  /\ pc[m] = "get"
  /\ \E response \in GetResponses :
       IF response.status_code # 200
       THEN /\ faults < MaxFaults
            /\ faults' = faults + 1
            /\ log' = [ log EXCEPT ![m] = Append(@, [ op |-> "get", ok |-> FALSE ]) ]
            /\ HandleException(m, "Failed to get issue body", response.text)
            /\ UNCHANGED << current_body, current_software_updates, new_body >>
       ELSE \* found: the rows parsed from the fetched body, with the located row mutated
            \E found \in { FindAndUpdate(get_software_update_rows_from_body(issue_body),
                                             args[m]) } :
                /\ UNCHANGED faults
                /\ log' = [ log EXCEPT ![m] =
                              Append(@, [ op |-> "get", ok |-> TRUE, body |-> issue_body ]) ]
                /\ current_body' = [ current_body EXCEPT ![m] = issue_body ]
                /\ current_software_updates' =
                     [ current_software_updates EXCEPT ![m] = found.rows ]
                /\ IF ~found.updated
                   THEN /\ HandleException(m, "No matching software update row found",
                                           args[m].computer_name[1])
                        /\ UNCHANGED new_body
                   ELSE /\ new_body' = [ new_body EXCEPT ![m] =
                                           build_updated_body(issue_body, found.rows) ]
                        /\ pc' = [ pc EXCEPT ![m] = "patch" ]
                        /\ UNCHANGED result
  /\ UNCHANGED << issue_body, args, retry_count, body, initial_body_state,
                  software_updates, max_retries >>
  /\ UNCHANGED notCoordVars

\* the PATCH step without the return after a successful commit: the loop goes on
Patch_NoReturn(m) ==
  /\ pc[m] = "patch"
  /\ \E response \in PatchResponses :
       IF response.status_code = 200
       THEN /\ issue_body' = new_body[m]
            /\ log' = [ log EXCEPT ![m] =
                          Append(@, [ op |-> "patch", ok |-> TRUE, body |-> new_body[m] ]) ]
            /\ body' = [ body EXCEPT ![m] = new_body[m] ]
            /\ software_updates' =
                 [ software_updates EXCEPT ![m] = current_software_updates[m] ]
            /\ IF retry_count[m] = args[m].max_retries - 1
               THEN /\ pc' = [ pc EXCEPT ![m] = "done" ]
                    /\ result' = [ result EXCEPT ![m] = Returned(FALSE) ]
               ELSE /\ pc' = [ pc EXCEPT ![m] = "sleep" ]
                    /\ UNCHANGED result
            /\ UNCHANGED faults
       ELSE /\ faults < MaxFaults
            /\ faults' = faults + 1
            /\ log' = [ log EXCEPT ![m] =
                          Append(@, [ op |-> "patch", ok |-> FALSE, body |-> new_body[m],
                                      text |-> response.text ]) ]
            /\ HandleException(m, "Failed to update issue body", response.text)
            /\ UNCHANGED << issue_body, body, software_updates >>
  /\ UNCHANGED << args, retry_count, current_body, current_software_updates, new_body,
                  initial_body_state, max_retries >>
  /\ UNCHANGED notCoordVars

\* requests.patch and the check of its status code
Patch(m) ==
  /\ pc[m] = "patch"
  /\ \E response \in PatchResponses :
       IF response.status_code = 200
       THEN /\ issue_body' = new_body[m]
            /\ log' = [ log EXCEPT ![m] =
                          Append(@, [ op |-> "patch", ok |-> TRUE, body |-> new_body[m] ]) ]
            /\ body' = [ body EXCEPT ![m] = new_body[m] ]
            /\ software_updates' =
                 [ software_updates EXCEPT ![m] = current_software_updates[m] ]
            /\ pc' = [ pc EXCEPT ![m] = "done" ]
            /\ result' = [ result EXCEPT ![m] = Returned(TRUE) ]
            /\ UNCHANGED faults
       ELSE /\ faults < MaxFaults
            /\ faults' = faults + 1
            /\ log' = [ log EXCEPT ![m] =
                          Append(@, [ op |-> "patch", ok |-> FALSE, body |-> new_body[m],
                                      text |-> response.text ]) ]
            /\ HandleException(m, "Failed to update issue body", response.text)
            /\ UNCHANGED << issue_body, body, software_updates >>
  /\ UNCHANGED << args, retry_count, current_body, current_software_updates, new_body,
                  initial_body_state, max_retries >>
  /\ UNCHANGED notCoordVars

\* the sleep of the except clause with a backoff that does not grow
Sleep_FlatBackoff(m) ==
  /\ pc[m] = "sleep"
  /\ log' = [ log EXCEPT ![m] =
                Append(@, [ op |-> "sleep", duration |-> RETRY_SLEEP_MULTIPLIER ]) ]
  /\ retry_count' = [ retry_count EXCEPT ![m] = retry_count[m] + 1 ]
  /\ pc' = [ pc EXCEPT ![m] = "get" ]
  /\ UNCHANGED << issue_body, args, current_body, current_software_updates, new_body,
                  body, initial_body_state, software_updates, result, faults, max_retries >>
  /\ UNCHANGED notCoordVars

\* the sleep with the attempt's number left as it is
Sleep_SameAttempt(m) ==
  /\ pc[m] = "sleep"
  /\ log' = [ log EXCEPT ![m] =
                Append(@, [ op |-> "sleep",
                            duration |-> RETRY_SLEEP_MULTIPLIER * (retry_count[m] + 1) ]) ]
  /\ pc' = [ pc EXCEPT ![m] = "get" ]
  /\ UNCHANGED << issue_body, args, retry_count, current_body, current_software_updates,
                  new_body, body, initial_body_state, software_updates, result, faults,
                  max_retries >>
  /\ UNCHANGED notCoordVars

\* time.sleep(RETRY_SLEEP_MULTIPLIER * (retry_count + 1)); continue
Sleep(m) ==
  /\ pc[m] = "sleep"
  /\ log' = [ log EXCEPT ![m] =
                Append(@, [ op |-> "sleep",
                            duration |-> RETRY_SLEEP_MULTIPLIER * (retry_count[m] + 1) ]) ]
  /\ retry_count' = [ retry_count EXCEPT ![m] = retry_count[m] + 1 ]
  /\ pc' = [ pc EXCEPT ![m] = "get" ]
  /\ UNCHANGED << issue_body, args, current_body, current_software_updates, new_body,
                  body, initial_body_state, software_updates, result, faults, max_retries >>
  /\ UNCHANGED notCoordVars

\* GitHubIssue.update_software_update_row: local rows only, no request
update_software_update_row(m) ==
  /\ pc[m] = "idle"
  /\ \E u \in UpdateInputs :
       LET a == [ op |-> "update_software_update_row",
                  computer_name |-> << m >>, package_manager |-> << "apt" >>,
                  status |-> u[1], upgraded |-> u[2], failed |-> u[3] ]
           status == u[1]
           idx == FirstIndex(software_updates[m], a.computer_name, a.package_manager)
       IN  /\ args' = [ args EXCEPT ![m] = a ]
           /\ IF status \notin DOMAIN status_mapping
              THEN /\ result' = [ result EXCEPT ![m] = Raised("Invalid status", status) ]
                   /\ UNCHANGED software_updates
              ELSE IF idx = 0
              THEN /\ result' = [ result EXCEPT ![m] = Returned(FALSE) ]
                   /\ UNCHANGED software_updates
              ELSE /\ result' = [ result EXCEPT ![m] = Returned(TRUE) ]
                   /\ software_updates' =
                        [ software_updates EXCEPT ![m][idx] =
                            MutateRow(@, status_mapping[status], a.upgraded, a.failed) ]
  /\ pc' = [ pc EXCEPT ![m] = "done" ]
  /\ UNCHANGED << issue_body, retry_count, current_body, current_software_updates,
                  new_body, body, initial_body_state, log, faults, max_retries >>
  /\ UNCHANGED notCoordVars

\* GitHubIssue.update_issue_body up to its PATCH request: the fresh fetch
\* (no retry: a failed fetch raises) and the rebuild of the fetched body from
\* the instance's rows (the loop is the one of _build_updated_body)
update_issue_body(m) ==
  /\ pc[m] = "done"
  /\ args[m].op = "update_software_update_row"
  /\ result[m].kind = "return"
  /\ args' = [ args EXCEPT ![m].op = "update_issue_body" ]
  /\ \E response \in GetResponses :
       IF response.status_code = 200
       THEN /\ log' = [ log EXCEPT ![m] =
                          Append(@, [ op |-> "get", ok |-> TRUE, body |-> issue_body ]) ]
            /\ body' = [ body EXCEPT ![m] = build_updated_body(issue_body, software_updates[m]) ]
            /\ pc' = [ pc EXCEPT ![m] = "push" ]
            /\ result' = [ result EXCEPT ![m] = NoResult ]
            /\ UNCHANGED faults
       ELSE /\ faults < MaxFaults
            /\ faults' = faults + 1
            /\ log' = [ log EXCEPT ![m] = Append(@, [ op |-> "get", ok |-> FALSE ]) ]
            /\ result' = [ result EXCEPT ![m] =
                             Raised("Failed to get issue body", response.text) ]
            /\ UNCHANGED << body, pc >>
  /\ UNCHANGED << issue_body, retry_count, current_body, current_software_updates,
                  new_body, initial_body_state, software_updates, max_retries >>
  /\ UNCHANGED notCoordVars

\* the PATCH request of update_issue_body and its status check (lines 209-224)
PatchIssueBody(m) ==
  /\ pc[m] = "push"
  /\ \E response \in PatchResponses :
       IF response.status_code = 200
       THEN /\ issue_body' = body[m]
            /\ log' = [ log EXCEPT ![m] =
                          Append(@, [ op |-> "patch", ok |-> TRUE, body |-> body[m] ]) ]
            /\ result' = [ result EXCEPT ![m] = Returned(TRUE) ]
            /\ UNCHANGED faults
       ELSE /\ faults < MaxFaults
            /\ faults' = faults + 1
            /\ log' = [ log EXCEPT ![m] =
                          Append(@, [ op |-> "patch", ok |-> FALSE, body |-> body[m],
                                      text |-> response.text ]) ]
            /\ result' = [ result EXCEPT ![m] =
                             Raised("Failed to update issue body", response.text) ]
            /\ UNCHANGED issue_body
  /\ pc' = [ pc EXCEPT ![m] = "done" ]
  /\ UNCHANGED << args, retry_count, current_body, current_software_updates, new_body,
                  body, initial_body_state, software_updates, max_retries >>
  /\ UNCHANGED notCoordVars

(***************************************************************************)
(* The parser and the builder on their own: parse a document, mutate the   *)
(* row of one address as the coordinator does, rebuild.                    *)
(***************************************************************************)

\* a table line of 2 cells without address comment
BrokenLine == << PIPE, SP, "H4", SP, PIPE, SP, "apt", SP, PIPE >>
\* a second line with the address of RowH1 and other cells
RowH1Again == RowLine(<< "STOP" >>, << "H1" >>, << "Debian" >>, << "apt" >>, << "2" >>, << "1" >>)
\* a row with text after its address comment
RowH2Note == RowH2 \o << SP, "note" >>

\* a row in the format with the OS EOL column: 7 cells and its address comment
RowH3Eol ==
  EncodeRaw(<< << "CHECK" >>, << "H3" >>, << "Linux" >>, << "apt" >>, << "5" >>, << "0" >>,
               << "2027/04/30" >> >>)
    \o AddressComment(<< "H3" >>, << "apt" >>)

LinePool ==
  { HeaderLine, RowH1, RowH2, LegacyH3, BrokenLine, RowH1Again, RowH2Note, RowH3Eol }
MaxLines == 3

Documents ==
  UNION { { Join(ls, << NL >>) : ls \in [ 1..n -> LinePool ] } : n \in 1..MaxLines }

InitPure ==
  /\ doc \in Documents
  /\ rows = << >>
  /\ mutated = FALSE
  /\ rebuilt = << >>
  /\ stage = "start"
  /\ Constructed(<< >>)
  /\ faults = 0
  /\ max_retries = 0
  /\ CodecOff
  /\ WorkerOff

\* the address whose row the pure specification mutates
AddressA == [ computer_name |-> << "H1" >>, package_manager |-> << "apt" >> ]

ParseDoc ==
  /\ stage = "start"
  /\ rows' = get_software_update_rows_from_body(doc)
  /\ stage' = "parsed"
  /\ UNCHANGED << doc, mutated, rebuilt >>
  /\ UNCHANGED notPureVars

\* lines 76-93 applied to the parsed rows, for a document that has the address
MutateA ==
  /\ stage = "parsed"
  /\ ~mutated
  /\ \E u \in UpdateInputs :
       LET found == FindAndUpdate(rows,
                      [ computer_name |-> AddressA.computer_name,
                        package_manager |-> AddressA.package_manager,
                        status |-> u[1], upgraded |-> u[2], failed |-> u[3] ])
       IN  /\ found.updated
           /\ rows' = found.rows
  /\ mutated' = TRUE
  /\ UNCHANGED << doc, rebuilt, stage >>
  /\ UNCHANGED notPureVars

BuildDoc ==
  /\ stage = "parsed"
  /\ rebuilt' = build_updated_body(doc, rows)
  /\ stage' = "built"
  /\ UNCHANGED << doc, rows, mutated >>
  /\ UNCHANGED notPureVars

NextPure ==
  \/ ParseDoc
  \/ MutateA
  \/ BuildDoc

(***************************************************************************)
(* The row codec on its own: render one row to its line (lines 84-91 and   *)
(* 145), decode the line with the parser.                                  *)
(***************************************************************************)

Glyphs == { status_mapping[st] : st \in DOMAIN status_mapping }
Names == { << "H1" >>, << "my", SP, "pc" >> }
OSLabels == { << "Linux" >>, << "Windows", SP, "11" >> }
PackageManagers == { << "apt" >>, << "scoop" >> }
Counts == { << >>, << "0" >>, << "5" >> }

\* the rows of the parser's shape with cells free of pipes and outer blanks
WellFormedRows ==
  { [ markdown |-> [ checkmark |-> c, computer_name |-> n, operation_system |-> o,
                     package_manager |-> p, upgraded |-> u, failed |-> f,
                     raw |-> << >> ],
      computer_name |-> t, package_manager |-> p ] :
    c \in Glyphs, n \in Names, o \in OSLabels, p \in PackageManagers,
    u \in Counts, f \in Counts, t \in Names }

InitCodec ==
  /\ src_row \in WellFormedRows
  /\ rendered = << >>
  /\ decoded = << >>
  /\ codec_stage = "row"
  /\ Constructed(<< >>)
  /\ faults = 0
  /\ max_retries = 0
  /\ PureOff
  /\ WorkerOff

\* the row's cells joined as raw (lines 84-91), then the address comment (line 145)
EncodeRow ==
  /\ codec_stage = "row"
  /\ rendered' = MutateRow(src_row, src_row.markdown.checkmark,
                           src_row.markdown.upgraded, src_row.markdown.failed).markdown.raw
                   \o AddressComment(src_row.computer_name, src_row.package_manager)
  /\ codec_stage' = "encoded"
  /\ UNCHANGED << src_row, decoded >>
  /\ UNCHANGED notCodecVars

DecodeLine ==
  /\ codec_stage = "encoded"
  /\ decoded' = get_software_update_rows_from_body(rendered)
  /\ codec_stage' = "decoded"
  /\ UNCHANGED << src_row, rendered >>
  /\ UNCHANGED notCodecVars

NextCodec ==
  \/ EncodeRow
  \/ DecodeLine

(***************************************************************************)
(* One run of the program on one host: main's loop over the host's package *)
(* managers and the run() of the apt and of the scoop worker.  A call of    *)
(* the coordinator is taken by its outcome: it returns or it raises.        *)
(***************************************************************************)

hostname == << "H1" >>
MaxManagers == 2
MaxPackages == 2

\* the package managers get_package_managers can find in the host's rows
ManagerNames == { "apt", "scoop", "brew" }
ManagerLists == UNION { [ 1..n -> ManagerNames ] : n \in 0..MaxManagers }

\* how a call of a function that can raise ends
Outcomes == { "return", "raise" }

\* str(n)
str(n) == << ToString(n) >>

CallEvent(fn, package_manager, status, upgraded, failed, outcome) ==
  [ ev |-> "call", fn |-> fn, computer_name |-> hostname,
    package_manager |-> package_manager, status |-> status,
    upgraded |-> upgraded, failed |-> failed, outcome |-> outcome ]
CommandEvent(name, outcome) == [ ev |-> "command", name |-> name, outcome |-> outcome ]
LogEvent(level, message) == [ ev |-> "log", level |-> level, message |-> message ]
\* main calls the run() of a worker
RunEvent(worker) == [ ev |-> "run", worker |-> worker ]

\* is_linux() and is_windows() of __main__.py
is_linux == environment = "Linux"
is_windows == environment = "Windows"

InitWorker ==
  /\ environment \in { "Linux", "Windows" }
  /\ root \in BOOLEAN
  /\ listed \in ManagerLists
  /\ package_managers = listed
  /\ wpc = "main"
  /\ trace = << >>
  /\ to_upgrade = 0
  /\ to_install_or_remove = FALSE
  /\ upgrade_result = FALSE
  /\ upgraded_to_upgrade = 0
  /\ frame = NoFrame
  /\ Constructed(<< >>)
  /\ faults = 0
  /\ max_retries = 0
  /\ PureOff
  /\ CodecOff

aptLocals == << to_upgrade, to_install_or_remove, upgrade_result, upgraded_to_upgrade >>

\* main from the lookup of the host's package managers to its loop
main ==
  /\ wpc = "main"
  /\ IF package_managers = << >>
     THEN /\ trace' = Append(trace, LogEvent("warning", "No package managers found"))
          /\ wpc' = "finished"
     ELSE /\ wpc' = "loop"
          /\ UNCHANGED trace
  /\ UNCHANGED << environment, root, listed, frame, package_managers, aptLocals >>
  /\ UNCHANGED notWorkerVars

\* one iteration of "for package_manager in package_managers" up to the call
\* of the worker; the loop ends when the list is used up
main_loop ==
  /\ wpc = "loop"
  /\ IF package_managers = << >>
     THEN /\ wpc' = "finished"
          /\ UNCHANGED << trace, package_managers >>
     ELSE /\ package_managers' = Tail(package_managers)
          /\ LET package_manager == Head(package_managers)
             IN  IF package_manager = "apt"
                 THEN IF ~is_linux
                      THEN /\ trace' = Append(trace, LogEvent("warning", "Skipping apt"))
                           /\ UNCHANGED wpc
                      ELSE /\ trace' = Append(trace, RunEvent("apt"))
                           /\ wpc' = "apt_run"
                 ELSE IF package_manager = "scoop"
                 THEN IF ~is_windows
                      THEN /\ trace' = Append(trace, LogEvent("warning", "Skipping scoop"))
                           /\ UNCHANGED wpc
                      ELSE /\ trace' = Append(trace, RunEvent("scoop"))
                           /\ wpc' = "scoop_run"
                 ELSE /\ trace' = Append(trace, LogEvent("error", "Unknown package manager"))
                      /\ UNCHANGED wpc
  /\ UNCHANGED << environment, root, listed, frame, aptLocals >>
  /\ UNCHANGED notWorkerVars

\* a statement of apt run()'s try block that can raise, given by its event
\* when it returns: on "raise" the except clause is next
AptStatement(event, next) ==
  \E outcome \in Outcomes :
    /\ trace' = Append(trace, [ event EXCEPT !.outcome = outcome ])
    /\ wpc' = IF outcome = "return" THEN next ELSE "apt_except"

AptWrite(status, upgraded, failed, next) ==
  AptStatement(CallEvent("atomic_update_with_retry", "apt", status, upgraded, failed,
                         "return"),
               next)

\* run() without the return after the error log
apt_run_NoReturn ==
  /\ wpc = "apt_run"
  /\ IF ~root
     THEN /\ trace' = Append(trace, LogEvent("error", "This script must be run as root."))
          /\ wpc' = "apt_write_running"
     ELSE AptStatement(CommandEvent("get_os_eol_info", "return"), "apt_write_running")
  /\ UNCHANGED << environment, root, listed, frame, package_managers, aptLocals >>
  /\ UNCHANGED notWorkerVars

\* run(): the root check and get_os_eol_info()
apt_run ==
  /\ wpc = "apt_run"
  /\ IF ~root
     THEN /\ trace' = Append(trace, LogEvent("error", "This script must be run as root."))
          /\ wpc' = "loop"
     ELSE AptStatement(CommandEvent("get_os_eol_info", "return"),
                       "apt_write_running")
  /\ UNCHANGED << environment, root, listed, frame, package_managers, aptLocals >>
  /\ UNCHANGED notWorkerVars

\* "Set initial status to running"
apt_write_running ==
  /\ wpc = "apt_write_running"
  /\ AptWrite("running", << >>, << >>, "apt_update")
  /\ UNCHANGED << environment, root, listed, frame, package_managers, aptLocals >>
  /\ UNCHANGED notWorkerVars

\* run_apt_update() and get_apt_full_upgrade_target() without the branch for
\* an empty simulation
apt_update_NoShortcut ==
  /\ wpc = "apt_update"
  /\ \E n \in 0..MaxPackages, others \in BOOLEAN :
       /\ to_upgrade' = n
       /\ to_install_or_remove' = others
       /\ AptStatement(CommandEvent("apt-get update", "return"), "apt_comment")
  /\ UNCHANGED << environment, root, listed, frame, package_managers, upgrade_result,
                  upgraded_to_upgrade >>
  /\ UNCHANGED notWorkerVars

\* run_apt_update() and get_apt_full_upgrade_target()
apt_update ==
  /\ wpc = "apt_update"
  /\ \E n \in 0..MaxPackages, others \in BOOLEAN :
       /\ to_upgrade' = n
       /\ to_install_or_remove' = others
       /\ AptStatement(CommandEvent("apt-get update", "return"),
                       IF n = 0 /\ ~others THEN "apt_write_no_updates" ELSE "apt_comment")
  /\ UNCHANGED << environment, root, listed, frame, package_managers, upgrade_result,
                  upgraded_to_upgrade >>
  /\ UNCHANGED notWorkerVars

\* "No updates needed - set final status", then return
apt_write_no_updates ==
  /\ wpc = "apt_write_no_updates"
  /\ AptWrite("success", << "0" >>, << "0" >>, "loop")
  /\ UNCHANGED << environment, root, listed, frame, package_managers, aptLocals >>
  /\ UNCHANGED notWorkerVars

\* post_github_comment(...)
apt_comment ==
  /\ wpc = "apt_comment"
  /\ AptStatement(CommandEvent("comment", "return"), "apt_write_planned")
  /\ UNCHANGED << environment, root, listed, frame, package_managers, aptLocals >>
  /\ UNCHANGED notWorkerVars

\* "Update status before starting upgrade"
apt_write_planned ==
  /\ wpc = "apt_write_planned"
  /\ AptWrite("running", str(to_upgrade), << >>, "apt_full_upgrade")
  /\ UNCHANGED << environment, root, listed, frame, package_managers, aptLocals >>
  /\ UNCHANGED notWorkerVars

\* run_apt_full_upgrade(), then run_apt_update() and the second
\* get_apt_full_upgrade_target()
apt_full_upgrade ==
  /\ wpc = "apt_full_upgrade"
  /\ \E r \in BOOLEAN, n \in 0..MaxPackages :
       /\ upgrade_result' = r
       /\ upgraded_to_upgrade' = n
       /\ \E outcome \in Outcomes :
            /\ trace' = trace \o << CommandEvent("apt-get dist-upgrade", "return"),
                                     CommandEvent("apt-get update", outcome) >>
            /\ wpc' = IF outcome = "return" THEN "apt_write_final" ELSE "apt_except"
  /\ UNCHANGED << environment, root, listed, frame, package_managers, to_upgrade,
                  to_install_or_remove >>
  /\ UNCHANGED notWorkerVars

\* the final status write with the status taken from the failed count
apt_write_final_StatusFromCount ==
  /\ wpc = "apt_write_final"
  /\ LET diff_to_upgrade == to_upgrade - upgraded_to_upgrade
         fail_count == to_upgrade - diff_to_upgrade
         final_status == IF fail_count = 0 THEN "success" ELSE "failed"
     IN  AptWrite(final_status, str(diff_to_upgrade), str(fail_count), "apt_reboot")
  /\ UNCHANGED << environment, root, listed, frame, package_managers, aptLocals >>
  /\ UNCHANGED notWorkerVars

\* "Set final status atomically"
apt_write_final ==
  /\ wpc = "apt_write_final"
  /\ LET final_status == IF upgrade_result THEN "success" ELSE "failed"
         diff_to_upgrade == to_upgrade - upgraded_to_upgrade
         fail_count == to_upgrade - diff_to_upgrade
     IN  AptWrite(final_status, str(diff_to_upgrade), str(fail_count), "apt_reboot")
  /\ UNCHANGED << environment, root, listed, frame, package_managers, aptLocals >>
  /\ UNCHANGED notWorkerVars

\* time.sleep(10); os.system("shutdown -r 0"); run() returns
apt_reboot ==
  /\ wpc = "apt_reboot"
  /\ trace' = Append(trace, CommandEvent("shutdown -r 0", "return"))
  /\ wpc' = "loop"
  /\ UNCHANGED << environment, root, listed, frame, package_managers, aptLocals >>
  /\ UNCHANGED notWorkerVars

\* the except clause of apt run(): the error is logged, get_os_eol_info() is
\* called inside a try of its own, and the status failed is written by a call
\* that no try encloses, so that what it raises leaves run() and, main having
\* no try either, the process
apt_except ==
  /\ wpc = "apt_except"
  /\ \E outcome \in Outcomes :
       /\ trace' = trace \o
            << LogEvent("error", "An error occurred during the upgrade"),
               CallEvent("atomic_update_with_retry", "apt", "failed", << >>, << "1" >>,
                         outcome) >>
       /\ wpc' = IF outcome = "return" THEN "loop" ELSE "crashed"
  /\ UNCHANGED << environment, root, listed, frame, package_managers, aptLocals >>
  /\ UNCHANGED notWorkerVars

\* a status write of scoop run(): update_software_update_row, which changes
\* the instance's rows only, then update_issue_body, which can raise
ScoopWrite(status, upgraded, failed, next, handler) ==
  \E outcome \in Outcomes :
    /\ trace' = trace \o
         << CallEvent("update_software_update_row", "scoop", status, upgraded, failed,
                      "return"),
            CallEvent("update_issue_body", "scoop", status, upgraded, failed, outcome) >>
    /\ wpc' = IF outcome = "return" THEN next ELSE handler

\* the first status write of scoop run()
scoop_run ==
  /\ wpc = "scoop_run"
  /\ ScoopWrite("running", << >>, << >>, "update_scoop_repos", "scoop_except")
  /\ UNCHANGED << environment, root, listed, frame, package_managers, aptLocals >>
  /\ UNCHANGED notWorkerVars

\* update_scoop_repos() is called: retry_count = 0, max_retries = 5
update_scoop_repos ==
  /\ wpc = "update_scoop_repos"
  /\ frame' = [ fn |-> "update_scoop_repos", retry_count |-> 0, max_retries |-> 5,
                done |-> FALSE, value |-> FALSE ]
  /\ wpc' = "update_scoop_repos_loop"
  /\ UNCHANGED << environment, root, listed, package_managers, trace, aptLocals >>
  /\ UNCHANGED notWorkerVars

\* the while loop with an attempt that raised not counted
update_scoop_repos_loop_NoCount ==
  /\ wpc = "update_scoop_repos_loop"
  /\ IF frame.retry_count < frame.max_retries
     THEN \E outcome \in Outcomes :
            IF outcome = "return"
            THEN /\ trace' = Append(trace, CommandEvent("scoop update", "return"))
                 /\ frame' = [ frame EXCEPT !.done = TRUE,
                                            !.value = (frame.retry_count # frame.max_retries) ]
                 /\ wpc' = "scoop_status"
            ELSE /\ Len(trace) < 20
                 /\ trace' = trace \o << CommandEvent("scoop update", "raise"),
                                         CommandEvent("time.sleep(5)", "return") >>
                 /\ UNCHANGED << frame, wpc >>
     ELSE /\ frame' = [ frame EXCEPT !.done = TRUE,
                                     !.value = (frame.retry_count # frame.max_retries) ]
          /\ wpc' = "scoop_status"
          /\ UNCHANGED trace
  /\ UNCHANGED << environment, root, listed, package_managers, aptLocals >>
  /\ UNCHANGED notWorkerVars

\* update_scoop_repos, the while loop: the test and one pass of the body, or
\* the statements after the loop when the test fails
update_scoop_repos_loop ==
  /\ wpc = "update_scoop_repos_loop"
  /\ IF frame.retry_count < frame.max_retries
     THEN \E outcome \in Outcomes :
            IF outcome = "return"
            THEN \* break, then "return True"
                 /\ trace' = Append(trace, CommandEvent("scoop update", "return"))
                 /\ frame' = [ frame EXCEPT !.done = TRUE,
                                            !.value = (frame.retry_count # frame.max_retries) ]
                 /\ wpc' = "scoop_status"
            ELSE /\ trace' = trace \o << CommandEvent("scoop update", "raise"),
                                         CommandEvent("time.sleep(5)", "return") >>
                 /\ frame' = [ frame EXCEPT !.retry_count = frame.retry_count + 1 ]
                 /\ UNCHANGED wpc
     ELSE /\ frame' = [ frame EXCEPT !.done = TRUE,
                                     !.value = (frame.retry_count # frame.max_retries) ]
          /\ wpc' = "scoop_status"
          /\ UNCHANGED trace
  /\ UNCHANGED << environment, root, listed, package_managers, aptLocals >>
  /\ UNCHANGED notWorkerVars

\* get_scoop_status(), post_github_comment(...), get_running_apps(...)
scoop_status ==
  /\ wpc = "scoop_status"
  /\ \E n \in 0..MaxPackages, outcome \in Outcomes :
       /\ to_upgrade' = n
       /\ trace' = Append(trace, CommandEvent("scoop status", outcome))
       /\ wpc' = IF outcome = "return" THEN "scoop_write_planned" ELSE "scoop_except"
  /\ UNCHANGED << environment, root, listed, frame, package_managers, to_install_or_remove,
                  upgrade_result, upgraded_to_upgrade >>
  /\ UNCHANGED notWorkerVars

\* the status write before the upgrade
scoop_write_planned ==
  /\ wpc = "scoop_write_planned"
  /\ ScoopWrite("running", str(to_upgrade), << >>, "scoop_upgrade", "scoop_except")
  /\ UNCHANGED << environment, root, listed, frame, package_managers, aptLocals >>
  /\ UNCHANGED notWorkerVars

\* update_scoop_apps(...) for the applications that are not running and for
\* the running ones the user agrees to stop, the counts of merged_results and
\* the final status write of the try block
scoop_upgrade ==
  /\ wpc = "scoop_upgrade"
  /\ \E merged \in to_upgrade..MaxPackages :
     \E success_count \in 0..merged :
     \E updated \in Outcomes :
       /\ upgraded_to_upgrade' = success_count
       /\ LET failed_count == merged - success_count
              status == IF failed_count = 0 THEN "success" ELSE "failed"
          IN  IF updated = "raise"
              THEN /\ trace' = Append(trace, CommandEvent("scoop update app", "raise"))
                   /\ wpc' = "scoop_except"
              ELSE ScoopWrite(status, str(success_count), str(failed_count),
                              "scoop_report", "scoop_except")
  /\ UNCHANGED << environment, root, listed, frame, package_managers, to_upgrade,
                  to_install_or_remove,
                  upgrade_result >>
  /\ UNCHANGED notWorkerVars

\* the second get_scoop_status() and the report that end the try block
scoop_report ==
  /\ wpc = "scoop_report"
  /\ \E outcome \in Outcomes :
       /\ trace' = Append(trace, CommandEvent("scoop status", outcome))
       /\ wpc' = IF outcome = "return" THEN "loop" ELSE "scoop_except"
  /\ UNCHANGED << environment, root, listed, frame, package_managers, aptLocals >>
  /\ UNCHANGED notWorkerVars

\* the except clause of scoop run(): the error is logged and the status failed
\* is written by update_software_update_row and update_issue_body, which no
\* try encloses
scoop_except ==
  /\ wpc = "scoop_except"
  /\ \E outcome \in Outcomes :
       /\ trace' = trace \o
            << LogEvent("error", "An error occurred during the upgrade"),
               CallEvent("update_software_update_row", "scoop", "failed", << >>, << >>,
                         "return"),
               CallEvent("update_issue_body", "scoop", "failed", << >>, << >>, outcome) >>
       /\ wpc' = IF outcome = "return" THEN "loop" ELSE "crashed"
  /\ UNCHANGED << environment, root, listed, frame, package_managers, aptLocals >>
  /\ UNCHANGED notWorkerVars

NextWorker ==
  \/ main
  \/ main_loop
  \/ apt_run
  \/ apt_write_running
  \/ apt_update
  \/ apt_write_no_updates
  \/ apt_comment
  \/ apt_write_planned
  \/ apt_full_upgrade
  \/ apt_write_final
  \/ apt_reboot
  \/ apt_except
  \/ scoop_run
  \/ update_scoop_repos
  \/ update_scoop_repos_loop
  \/ scoop_status
  \/ scoop_write_planned
  \/ scoop_upgrade
  \/ scoop_report
  \/ scoop_except

vars == << coordVars, pureVars, codecVars, workerVars >>

Init == InitCoord /\ PureOff /\ CodecOff /\ WorkerOff

Next ==
  \E m \in Machines :
    \/ atomic_update_with_retry(m)
    \/ GetAndBuild(m)
    \/ Patch(m)
    \/ Sleep(m)
    \/ update_software_update_row(m)

Spec == Init /\ [][Next]_vars

\* the calls of the two machines on the issue body that has the row of each,
\* with every max_retries and a store that may fail requests
InitRetry ==
  /\ Constructed(Join(<< HeaderLine, RowH1, RowH2, FooterLine >>, << NL >>))
  /\ faults = 0
  /\ max_retries \in RetryInputs
  /\ PureOff
  /\ CodecOff
  /\ WorkerOff

SpecRetry == InitRetry /\ [][Next]_vars

\* the two update paths side by side: a machine either makes one call of
\* atomic_update_with_retry with at most two attempts, or mutates its row
\* locally and pushes it with update_issue_body
InitPush ==
  /\ \E b \in InitialBodies : Constructed(b)
  /\ faults = 0
  /\ max_retries \in { 1, 2 }
  /\ PureOff
  /\ CodecOff
  /\ WorkerOff

NextPush ==
  \E m \in Machines :
    \/ update_software_update_row(m)
    \/ update_issue_body(m)
    \/ PatchIssueBody(m)
    \/ atomic_update_with_retry(m)
    \/ GetAndBuild(m)
    \/ Patch(m)
    \/ Sleep(m)

SpecPush == InitPush /\ [][NextPush]_vars

\* the calls of atomic_update_with_retry against a store that accepts every
\* request: the store has no failure left
InitReliable ==
  /\ \E b \in InitialBodies : Constructed(b)
  /\ faults = MaxFaults
  /\ max_retries \in RetryInputs
  /\ PureOff
  /\ CodecOff
  /\ WorkerOff

\* the steps of machine m's call
Step(m) ==
  \/ atomic_update_with_retry(m)
  \/ GetAndBuild(m)
  \/ Patch(m)
  \/ Sleep(m)

NextReliable == \E m \in Machines : Step(m)

\* each machine is a process of its own that keeps running its call: a
\* request returns, a sleep ends
SpecReliable ==
  InitReliable /\ [][NextReliable]_vars /\ \A m \in Machines : WF_vars(Step(m))

SpecPure == InitPure /\ [][NextPure]_vars

SpecCodec == InitCodec /\ [][NextCodec]_vars

\* one machine's call of atomic_update_with_retry against the store that may
\* fail requests; the machine keeps its call running: a request is answered and
\* a sleep ends
Caller == "H1"

NextBounded == Step(Caller)

SpecBounded == Init /\ [][NextBounded]_vars /\ WF_vars(Step(Caller))

\* one machine's call of atomic_update_with_retry on the issue bodies of the
\* two-machine runs and on a body in which the caller's address stands twice
RepeatedBodies ==
  InitialBodies \cup { Join(<< RowH1, RowH2, RowH1Again >>, << NL >>) }

InitCache ==
  /\ \E b \in RepeatedBodies : Constructed(b)
  /\ faults = 0
  /\ max_retries \in { 1, 2 }
  /\ PureOff
  /\ CodecOff
  /\ WorkerOff

SpecCache == InitCache /\ [][NextBounded]_vars

\* one machine's call of atomic_update_with_retry with every max_retries from
\* a negative one to MaxRetries, against a store that may fail requests
InitRetries ==
  /\ \E b \in InitialBodies : Constructed(b)
  /\ faults = 0
  /\ max_retries \in (-1)..MaxRetries
  /\ PureOff
  /\ CodecOff
  /\ WorkerOff

SpecRetries == InitRetries /\ [][NextBounded]_vars

\* the calls one machine makes in sequence
MaxCalls == 2

\* a store that accepts every request, one machine and no other writer, on
\* every document of the parser's line pool
InitTwice ==
  /\ \E b \in Documents : Constructed(b)
  /\ faults = MaxFaults
  /\ max_retries = 2
  /\ PureOff
  /\ CodecOff
  /\ WorkerOff

\* the caller, its call over, makes the same call of atomic_update_with_retry
\* again: the arguments are those of the call before, the loop starts anew
atomic_update_with_retry_again(m) ==
  /\ pc[m] = "done"
  /\ args[m].op = "atomic_update_with_retry"
  /\ Cardinality({ i \in 1..Len(log[m]) : log[m][i].op = "get" }) < MaxCalls
  /\ pc' = [ pc EXCEPT ![m] = "get" ]
  /\ result' = [ result EXCEPT ![m] = NoResult ]
  /\ retry_count' = [ retry_count EXCEPT ![m] = 0 ]
  /\ UNCHANGED << issue_body, args, current_body, current_software_updates, new_body,
                  body, initial_body_state, software_updates, log, faults, max_retries >>
  /\ UNCHANGED notCoordVars

NextTwice ==
  \/ Step(Caller)
  \/ atomic_update_with_retry_again(Caller)

SpecTwice == InitTwice /\ [][NextTwice]_vars

\* one line of each kind the two calls can meet: a line without address
\* comment, the row of each address, a second row of an address, a row with
\* text after its comment, a tagged line the parser rejects
SequentialPool == { HeaderLine, RowH1, RowH2, RowH1Again, RowH2Note, LegacyH3 }

SequentialDocuments ==
  UNION { { Join(ls, << NL >>) : ls \in [ 1..n -> SequentialPool ] } : n \in 1..MaxLines }

\* the documents that have a row for each of the two addresses
BothRows ==
  { b \in SequentialDocuments :
      \A m \in Machines :
        FirstIndex(get_software_update_rows_from_body(b), << m >>, << "apt" >>) # 0 }

\* a store that accepts every request and calls without a second attempt
InitSequential ==
  /\ \E b \in BothRows : Constructed(b)
  /\ faults = MaxFaults
  /\ max_retries = 1
  /\ PureOff
  /\ CodecOff
  /\ WorkerOff

\* the calls for the two addresses run one after the other, in either order:
\* it is a call's turn when the other has not started or is over (with
\* max_retries = 1 no call sleeps)
Turn(m) == \A o \in Machines \ { m } : pc[o] \in { "idle", "done" }

NextSequential ==
  \E m \in Machines :
    \/ Turn(m) /\ atomic_update_with_retry(m)
    \/ Turn(m) /\ GetAndBuild(m)
    \/ Turn(m) /\ Patch(m)

SpecSequential == InitSequential /\ [][NextSequential]_vars

\* the statuses a PATCH request can be answered with when the store can also
\* answer a success other than 200
StatusResponses ==
  PatchResponses \cup { [ status_code |-> 201, text |-> "Created" ],
                        [ status_code |-> 204, text |-> "" ] }

\* requests.patch and the check of its status code, with the answers of
\* StatusResponses: the store has taken the new body when it answers 2xx, the
\* code takes its success branch on 200 only
PatchStatus(m) ==
  /\ pc[m] = "patch"
  /\ \E response \in StatusResponses :
       /\ issue_body' = IF response.status_code \in 200..299 THEN new_body[m]
                                                            ELSE issue_body
       /\ IF response.status_code = 200
          THEN /\ log' = [ log EXCEPT ![m] =
                             Append(@, [ op |-> "patch", ok |-> TRUE, body |-> new_body[m],
                                         status_code |-> response.status_code ]) ]
               /\ body' = [ body EXCEPT ![m] = new_body[m] ]
               /\ software_updates' =
                    [ software_updates EXCEPT ![m] = current_software_updates[m] ]
               /\ pc' = [ pc EXCEPT ![m] = "done" ]
               /\ result' = [ result EXCEPT ![m] = Returned(TRUE) ]
          ELSE /\ log' = [ log EXCEPT ![m] =
                             Append(@, [ op |-> "patch", ok |-> FALSE, body |-> new_body[m],
                                         text |-> response.text,
                                         status_code |-> response.status_code ]) ]
               /\ HandleException(m, "Failed to update issue body", response.text)
               /\ UNCHANGED << body, software_updates >>
  /\ UNCHANGED << args, retry_count, current_body, current_software_updates, new_body,
                  initial_body_state, faults, max_retries >>
  /\ UNCHANGED notCoordVars

\* one machine's call of atomic_update_with_retry, with at most two attempts,
\* against a store that answers its commits with any status of StatusResponses
NextStatus ==
  \/ atomic_update_with_retry(Caller)
  \/ GetAndBuild(Caller)
  \/ PatchStatus(Caller)
  \/ Sleep(Caller)

SpecStatus == InitPush /\ [][NextStatus]_vars

\* the row of H1 in the format with the OS EOL column
RowH1Eol ==
  EncodeRaw(<< << "HOURGLASS" >>, << "H1" >>, << "Linux" >>, << "apt" >>, << "0" >>, << "0" >>,
               << "unknown" >> >>)
    \o AddressComment(<< "H1" >>, << "apt" >>)

\* one machine's calls of atomic_update_with_retry, with and without the EOL
\* arguments, on a document with the EOL column and on one without it
EolBodies ==
  { Join(<< HeaderLine, RowH1Eol, RowH2 >>, << NL >>),
    Join(<< HeaderLine, RowH1, RowH2, FooterLine >>, << NL >>) }

InitEol ==
  /\ \E b \in EolBodies : Constructed(b)
  /\ faults = 0
  /\ max_retries \in { 1, 2 }
  /\ PureOff
  /\ CodecOff
  /\ WorkerOff

NextEol ==
  \/ atomic_update_with_retry_os_eol(Caller)
  \/ atomic_update_with_retry(Caller)
  \/ GetAndBuild(Caller)
  \/ Patch(Caller)
  \/ Sleep(Caller)

SpecEol == InitEol /\ [][NextEol]_vars

\* one run of the program on a Linux host whose only package manager is apt
InitApt ==
  /\ InitWorker
  /\ environment = "Linux"
  /\ listed = << "apt" >>

NextApt ==
  \/ main
  \/ main_loop
  \/ apt_run
  \/ apt_write_running
  \/ apt_update
  \/ apt_write_no_updates
  \/ apt_comment
  \/ apt_write_planned
  \/ apt_full_upgrade
  \/ apt_write_final
  \/ apt_reboot
  \/ apt_except

SpecApt == InitApt /\ [][NextApt]_vars

\* one run of the program on a Windows host whose only package manager is
\* scoop; a started 'scoop update' ends and a sleep ends
InitScoop ==
  /\ InitWorker
  /\ environment = "Windows"
  /\ listed = << "scoop" >>

NextScoop ==
  \/ main
  \/ main_loop
  \/ scoop_run
  \/ update_scoop_repos
  \/ update_scoop_repos_loop
  \/ scoop_status
  \/ scoop_write_planned
  \/ scoop_upgrade
  \/ scoop_report
  \/ scoop_except

SpecScoop == InitScoop /\ [][NextScoop]_vars /\ WF_vars(update_scoop_repos_loop)

(***************************************************************************)
(* get_os_eol_date_from_api of os_eol.py, called on its own against an API *)
(* whose answers to the requests to come are fixed in advance.             *)
(***************************************************************************)

MaxRequests == 3

\* product_mapping.get(os_name), for three of its nine entries: the product of
\* an OS name, "None" for a name it lacks
product_mapping(os_name) ==
  IF os_name = "Windows" THEN "windows"
  ELSE IF os_name = "Ubuntu" THEN "ubuntu"
  ELSE IF os_name = "Debian" THEN "debian"
  ELSE "None"

OSNames == { "Windows", "Ubuntu", "Debian", "Gentoo" }

\* what one requests.get can end with: a response other than 200, a response
\* 200 whose 'eol' is a date, a text that is no date, False or missing, or an
\* exception (a timeout)
ApiAnswers ==
  { [ status_code |-> 500, eol |-> "" ],
    [ status_code |-> 200, eol |-> "2027-04-30" ],
    [ status_code |-> 200, eol |-> "2025-10-14" ],
    [ status_code |-> 200, eol |-> "soon" ],
    [ status_code |-> 200, eol |-> "False" ],
    [ status_code |-> 200, eol |-> "" ],
    [ status_code |-> 0, eol |-> "" ] }

Dates == { "2027-04-30", "2025-10-14" }

ApiScripts == UNION { [ 1..n -> ApiAnswers ] : n \in 1..MaxRequests }

InitOsEol ==
  /\ environment = "Linux"
  /\ root = FALSE
  /\ listed = << >>
  /\ package_managers = << >>
  /\ wpc = "get_os_eol_date_from_api"
  /\ trace = << >>
  /\ to_upgrade = 0
  /\ to_install_or_remove = FALSE
  /\ upgrade_result = FALSE
  /\ upgraded_to_upgrade = 0
  /\ \E os_name \in OSNames, script \in ApiScripts :
       frame = [ fn |-> "get_os_eol_date_from_api", os_name |-> os_name,
                 responses |-> script, done |-> FALSE, value |-> "None" ]
  /\ Constructed(<< >>)
  /\ faults = 0
  /\ max_retries = 0
  /\ PureOff
  /\ CodecOff

\* the whole function: no request for an OS without product; otherwise one
\* requests.get, and the date of 'eol' when the response is 200 and 'eol' is a
\* date, None in every other case
get_os_eol_date_from_api ==
  /\ wpc = "get_os_eol_date_from_api"
  /\ ~frame.done
  /\ IF product_mapping(frame.os_name) = "None"
     THEN /\ frame' = [ frame EXCEPT !.done = TRUE, !.value = "None" ]
          /\ UNCHANGED trace
     ELSE LET response == Head(frame.responses)
          IN  /\ trace' = Append(trace, [ ev |-> "request",
                                          product |-> product_mapping(frame.os_name),
                                          response |-> response ])
              /\ frame' = [ frame EXCEPT
                              !.responses = Tail(frame.responses),
                              !.done = TRUE,
                              !.value = IF response.status_code = 200 /\ response.eol \in Dates
                                        THEN response.eol ELSE "None" ]
  /\ wpc' = "returned"
  /\ UNCHANGED << environment, root, listed, package_managers, aptLocals >>
  /\ UNCHANGED notWorkerVars

NextOsEol == get_os_eol_date_from_api

SpecOsEol == InitOsEol /\ [][NextOsEol]_vars

SpecWorker == InitWorker /\ [][NextWorker]_vars

(***************************************************************************)
(* Vocabulary of the properties                                            *)
(***************************************************************************)

Lines(b) == Split(b, NL)

Gets(m) == { i \in 1..Len(log[m]) : log[m][i].op = "get" }
Patches(m) == { i \in 1..Len(log[m]) : log[m][i].op = "patch" }
Sleeps(m) == { i \in 1..Len(log[m]) : log[m][i].op = "sleep" }

IsAtomicCall(m) == args[m].op = "atomic_update_with_retry"

\* the address is absent from the rows of body b
Absent(b, a) ==
  FirstIndex(get_software_update_rows_from_body(b), a.computer_name, a.package_manager) = 0

\* every fetch of the call succeeded and was followed by a PATCH request
\* (the PATCH of the last fetch may still be pending)
EveryAttemptCommitted(m) ==
  \A i \in Gets(m) :
    /\ log[m][i].ok
    /\ i < Len(log[m]) => log[m][i + 1].op = "patch"
    /\ i = Len(log[m]) => pc[m] = "patch"

\* the line is a decodable row followed by its address comment and nothing else
WellFormedRow(line) ==
  LET r == ParseLine(line)
  IN  /\ r # << >>
      /\ line = r[1].markdown.raw \o AddressComment(r[1].computer_name, r[1].package_manager)

HasAddress(line, a) ==
  LET r == ParseLine(line)
  IN  /\ r # << >>
      /\ r[1].computer_name = a.computer_name
      /\ r[1].package_manager = a.package_manager

\* a table line whose prefix does not have the 6 cells of a row
WrongCellCount(line) ==
  LET m == row_regex_match(line)
      prefix == IF m.matched THEN m.markdown ELSE line
  IN  /\ prefix # << >>
      /\ Head(prefix) = PIPE
      /\ Len(Split(prefix, PIPE)) # 8

\* the line of the row after the update a: its cells re-joined, its comment re-appended
Reencoded(line, a) ==
  LET r == MutateRow(ParseLine(line)[1], StatusMappingGet(a.status), a.upgraded, a.failed)
  IN  r.markdown.raw \o AddressComment(r.computer_name, r.package_manager)

\* body b with the first row of address a re-encoded and every other line as it is
ReencodeOnly(b, a) ==
  LET ls == Lines(b)
      hits == { i \in 1..Len(ls) : HasAddress(ls[i], a) }
  IN  IF hits = {} THEN b
      ELSE LET t == CHOOSE i \in hits : \A h \in hits : i <= h
           IN  Join([ ls EXCEPT ![t] = Reencoded(ls[t], a) ], << NL >>)

AddressB == [ computer_name |-> << "H2" >>, package_manager |-> << "apt" >> ]
DEFAULT_MAX_RETRIES == 3

(***************************************************************************)
(* Properties                                                              *)
(***************************************************************************)

\* C1: a call whose first fetch returns a document without the requested
\* address raises "row not found" right away: one fetch, no commit, no sleep.
C1_NotFoundNotRetried ==
  \A m \in Machines :
    ( /\ IsAtomicCall(m)
      /\ args[m].max_retries >= 1
      /\ log[m] # << >>
      /\ log[m][1].op = "get" /\ log[m][1].ok
      /\ Absent(log[m][1].body, args[m]) )
    => /\ Len(log[m]) = 1
       /\ pc[m] = "done"
       /\ result[m].kind = "raise"
       /\ result[m].msg = "No matching software update row found"

\* C2: a request with a status outside {running, success, failed} is rejected
\* before any request is sent: the call has raised, has fetched and committed
\* nothing, and the machine's rows are those parsed at construction.
C2_InvalidStatusRejected ==
  \A m \in Machines :
    (args[m].op # "none" /\ args[m].status \notin DOMAIN status_mapping)
    => /\ pc[m] = "done"
       /\ result[m].kind = "raise"
       /\ log[m] = << >>
       /\ software_updates[m] = get_software_update_rows_from_body(initial_body_state[m])

\* the stored line of machine m's address holds the values m's call wrote
StoredRowHolds(m) ==
  LET stored == get_software_update_rows_from_body(issue_body)
      idx == FirstIndex(stored, args[m].computer_name, args[m].package_manager)
  IN  /\ idx # 0
      /\ stored[idx].markdown.checkmark = StatusMappingGet(args[m].status)
      /\ stored[idx].markdown.upgraded = args[m].upgraded
      /\ stored[idx].markdown.failed = args[m].failed

\* C3: once the calls of two machines for different addresses have both
\* returned success, the stored line of each address holds the values written
\* for it, whatever the interleaving of their fetches and commits.
C3_BothWritesStored ==
  (\A m \in Machines : IsAtomicCall(m) /\ result[m] = Returned(TRUE))
  => \A m \in Machines : StoredRowHolds(m)

\* C4: in a document with one row at A, one row at B and opaque lines,
\* mutating A's row and rebuilding changes A's line only: every other line is
\* the same text at the same position.
C4_Isolation ==
  LET dl == Lines(doc)
      rl == Lines(rebuilt)
      as == { i \in 1..Len(dl) : HasAddress(dl[i], AddressA) }
      bs == { i \in 1..Len(dl) : HasAddress(dl[i], AddressB) }
  IN  ( /\ stage = "built"
        /\ mutated
        /\ Cardinality(as) = 1 /\ Cardinality(bs) = 1
        /\ \A i \in as \cup bs : WellFormedRow(dl[i])
        /\ \A i \in (1..Len(dl)) \ (as \cup bs) : ParseLine(dl[i]) = << >> )
      => /\ Len(rl) = Len(dl)
         /\ \A i \in (1..Len(dl)) \ as : rl[i] = dl[i]

\* C5: the builder drops nothing: the output has as many lines as the body,
\* and a line whose address comment matches no row of the collection is
\* copied unchanged.
C5_BuilderNeverDrops ==
  LET dl == Lines(doc)
      rl == Lines(rebuilt)
  IN  stage = "built"
      => /\ Len(rl) = Len(dl)
         /\ \A i \in 1..Len(dl) :
              LET m == row_regex_match(dl[i])
              IN  (m.matched /\ FirstIndex(rows, m.computer_name, m.package_manager) = 0)
                  => rl[i] = dl[i]

\* C6: when every attempt of a call reaches its commit and a commit succeeds
\* on attempt k, the call has returned True after k fetches, k commits and
\* k - 1 sleeps, k <= max_retries, and the successful commit is its last request.
C6_RetryConvergence ==
  \A m \in Machines :
    \A i \in Patches(m) :
      (log[m][i].ok /\ EveryAttemptCommitted(m))
      => LET k == Cardinality(Patches(m))
         IN  /\ i = Len(log[m])
             /\ pc[m] = "done"
             /\ result[m] = Returned(TRUE)
             /\ Cardinality(Gets(m)) = k
             /\ Cardinality(Sleeps(m)) = k - 1
             /\ k <= args[m].max_retries
             /\ \A j \in Patches(m) \ { i } : ~log[m][j].ok

\* the call of m returned True on its third attempt after two failed commits
C6_Witness ==
  \E m \in Machines :
    /\ IsAtomicCall(m)
    /\ result[m] = Returned(TRUE)
    /\ EveryAttemptCommitted(m)
    /\ args[m].max_retries = DEFAULT_MAX_RETRIES
    /\ Cardinality(Patches(m)) = 3
    /\ Cardinality(Sleeps(m)) = 2

\* every attempt of the call so far reached its commit and every commit failed
EveryCommitFailed(m) ==
  /\ IsAtomicCall(m)
  /\ args[m].max_retries >= 1
  /\ EveryAttemptCommitted(m)
  /\ \A i \in Patches(m) : ~log[m][i].ok

\* C7: when every commit fails, the call makes exactly max_retries commit
\* attempts and then raises the error of the last one; it never returns
\* success and never makes a further attempt.
C7_Exhaustion ==
  \A m \in Machines :
    EveryCommitFailed(m)
    => LET n == args[m].max_retries
           c == Cardinality(Patches(m))
       IN  /\ c <= n
           /\ result[m] # Returned(TRUE)
           /\ (c = n) => pc[m] = "done"
           /\ pc[m] = "done"
              => /\ c = n
                 /\ log[m][Len(log[m])].op = "patch"
                 /\ result[m] = Raised("Failed to update issue body",
                                       log[m][Len(log[m])].text)

\* a call with max_retries = 2 raised after two failed commits with different reasons
C7_Witness ==
  \E m \in Machines :
    /\ EveryCommitFailed(m)
    /\ args[m].max_retries = 2
    /\ pc[m] = "done"
    /\ result[m].kind = "raise"
    /\ Cardinality(Patches(m)) = 2
    /\ log[m][2].text # log[m][5].text

\* C8: every commit follows a fetch of the same attempt, and the body it
\* sends is the body that fetch returned with only the addressed row re-encoded.
C8_CommitsFreshFetch ==
  \A m \in Machines :
    \A i \in Patches(m) :
      /\ i > 1
      /\ log[m][i - 1].op = "get"
      /\ log[m][i - 1].ok
      /\ log[m][i].body = ReencodeOnly(log[m][i - 1].body, args[m])

\* C9: parsing a document and rebuilding it with no row mutated returns the
\* document itself.
C9_IdempotentRerender ==
  (stage = "built" /\ ~mutated) => rebuilt = doc

\* C10: a document of one correctly tagged row and one line with a wrong cell
\* count parses to exactly one row, and the rebuilt document has the malformed
\* line unchanged.
C10_MalformedLineTolerated ==
  LET dl == Lines(doc)
      rl == Lines(rebuilt)
  IN  \A g, b \in 1..Len(dl) :
        (Len(dl) = 2 /\ g # b /\ WellFormedRow(dl[g]) /\ WrongCellCount(dl[b]))
        => /\ stage \in { "parsed", "built" } => Len(rows) = 1
           /\ stage = "built" => (Len(rl) = 2 /\ rl[b] = dl[b])

\* C11: when two lines of a document carry the same address, an update of
\* that address mutates the first of them only, and the rebuilt document has
\* every later line of that address byte-identical to its original text.
C11_FirstOccurrenceWins ==
  LET dl == Lines(doc)
      rl == Lines(rebuilt)
      hits == { i \in 1..Len(dl) : HasAddress(dl[i], AddressA) }
  IN  ( /\ stage = "built"
        /\ mutated
        /\ Cardinality(hits) >= 2
        /\ \A i \in 1..Len(dl) :
             row_regex_match(dl[i]).matched => ParseLine(dl[i]) # << >> )
      => LET t == CHOOSE i \in hits : \A h \in hits : i <= h
         IN  /\ Len(rl) = Len(dl)
             /\ Len(rows) >= Cardinality(hits)
             /\ \A i \in hits \ { t } : rl[i] = dl[i]

\* the number of cells of the table prefix of a line that matches row_regex
CellCount(line) == Len(Split(row_regex_match(line).markdown, PIPE)) - 2

\* C12: a line carrying an address comment is decoded into a row exactly when
\* its table prefix has 6 or 7 cells, and the 7th cell is the row's os_eol.
C12_SixOrSevenCells ==
  LET dl == Lines(doc)
      tagged == { i \in 1..Len(dl) : row_regex_match(dl[i]).matched }
  IN  (stage = "parsed" /\ ~mutated)
      => /\ Len(rows) = Cardinality({ i \in tagged : CellCount(dl[i]) \in { 6, 7 } })
         /\ \A i \in tagged :
              /\ ParseLine(dl[i]) # << >> <=> CellCount(dl[i]) \in { 6, 7 }
              /\ CellCount(dl[i]) = 7
                 => /\ "os_eol" \in DOMAIN ParseLine(dl[i])[1].markdown
                    /\ ParseLine(dl[i])[1].markdown.os_eol
                         = Strip(Split(row_regex_match(dl[i]).markdown, PIPE)[8])

\* the six cells and the address of a row
RowFields(r) ==
  << r.markdown.checkmark, r.markdown.computer_name, r.markdown.operation_system,
     r.markdown.package_manager, r.markdown.upgraded, r.markdown.failed,
     r.computer_name, r.package_manager >>

\* C13: decoding the line a well-formed row is encoded to yields one row with
\* the same glyph, display name, OS label, package manager, counts and address.
C13_RoundTrip ==
  codec_stage = "decoded"
  => /\ Len(decoded) = 1
     /\ RowFields(decoded[1]) = RowFields(src_row)

\* a row with both counts empty and a two-word name went through the round trip
C13_Witness ==
  /\ codec_stage = "decoded"
  /\ src_row.markdown.upgraded = << >>
  /\ src_row.markdown.failed = << >>
  /\ src_row.computer_name = << "my", SP, "pc" >>
  /\ Len(decoded) = 1

\* the rows of address a that body b decodes to, in the order of their lines
RowsAt(b, a) ==
  SelectSeq(get_software_update_rows_from_body(b),
            LAMBDA r : r.computer_name = a.computer_name
                       /\ r.package_manager = a.package_manager)

\* C14: the document committed by a successful call decodes, at the call's
\* address, to the glyph of the status and to the passed upgraded and failed
\* strings, with the address tag, display name, OS label and package-manager
\* cell of the fetched document.
C14_CommittedRowDecodes ==
  [][ \A m \in Machines :
        ( /\ pc[m] = "patch"
          /\ result'[m] = Returned(TRUE)
          /\ args[m].status \in DOMAIN status_mapping )
        => \A committed \in { RowsAt(issue_body', args[m]) } :
           \A fetched \in { RowsAt(current_body[m], args[m]) } :
             /\ committed # << >>
             /\ RowFields(committed[1])
                  = << status_mapping[args[m].status],
                       fetched[1].markdown.computer_name,
                       fetched[1].markdown.operation_system,
                       fetched[1].markdown.package_manager,
                       args[m].upgraded, args[m].failed,
                       fetched[1].computer_name, fetched[1].package_manager >>
    ]_vars

\* a call with status success and counts "5" and "0" returned True on a row
\* that was pending with counts "0" and "0", after the other machine's commit
C14_Witness ==
  /\ IsAtomicCall("H1")
  /\ result["H1"] = Returned(TRUE)
  /\ args["H1"].status = "success"
  /\ RowsAt(initial_body_state["H1"], args["H1"])[1].markdown.checkmark = << "HOURGLASS" >>
  /\ result["H2"] = Returned(TRUE)
  /\ log["H1"][Len(log["H1"]) - 1].body # initial_body_state["H1"]

\* the address comment of each line of body b, in order ("none" for a line without)
TagsOf(b) ==
  LET ls == Lines(b)
  IN  [ i \in 1..Len(ls) |->
          LET m == row_regex_match(ls[i])
          IN  IF m.matched THEN << m.computer_name, m.package_manager >> ELSE "none" ]

\* C15: whatever commits the machines have made through atomic_update_with_retry
\* or update_issue_body, the stored document has the lines of the initial
\* document: the same number of lines, the same address tag on each of them.
C15_RowsNeverCreatedOrDeleted ==
  \A m \in Machines : TagsOf(issue_body) = TagsOf(initial_body_state[m])

\* the address machine m updates
AddressOf(m) == [ computer_name |-> << m >>, package_manager |-> << "apt" >> ]

\* C16: against a store that accepts every request, the calls of two machines
\* for different addresses whose rows are in the document both end up
\* returning True, whatever the interleaving of their steps.
C16_BothEventuallySucceed ==
  (max_retries >= 1 /\ \A m \in Machines : ~Absent(issue_body, AddressOf(m)))
  ~> (\A m \in Machines : result[m] = Returned(TRUE))

\* both calls returned True after each fetched the initial document, before
\* the commit of the other
C16_Witness ==
  \A m \in Machines :
    /\ IsAtomicCall(m)
    /\ result[m] = Returned(TRUE)
    /\ log[m][1] = [ op |-> "get", ok |-> TRUE, body |-> initial_body_state[m] ]

\* C17: no exception leaves a worker's run(): whatever raises in an update
\* cycle, the final write of the status failed included, the process goes on
\* with main's loop and never ends by an uncaught exception.
C17_FailedCycleNotFatal ==
  wpc # "crashed"

\* the positions of the trace at which a worker's except clause begins
HandlerEntries ==
  { i \in 1..Len(trace) : /\ trace[i].ev = "log"
                          /\ trace[i].level = "error"
                          /\ trace[i].message = "An error occurred during the upgrade" }

\* C18: when a step of a worker's update cycle raises, the worker's next call
\* of the coordinator is one write of the status failed for the host, and it is
\* a call of atomic_update_with_retry, the retrying write, in the apt worker
\* and in the scoop worker alike.
C18_FinalWriteRetries ==
  \A i \in HandlerEntries :
    /\ i < Len(trace)
    /\ trace[i + 1].ev = "call"
    /\ trace[i + 1].fn = "atomic_update_with_retry"
    /\ trace[i + 1].status = "failed"
    /\ trace[i + 1].computer_name = hostname

\* the attempt of m's call to which the request at position i of its log belongs
AttemptOf(m, i) == Cardinality({ j \in Gets(m) : j <= i })

\* the requests of m's call that failed in an attempt that is not the last
FailedBeforeLast(m, op) ==
  { i \in 1..Len(log[m]) : /\ log[m][i].op = op
                           /\ ~log[m][i].ok
                           /\ AttemptOf(m, i) < args[m].max_retries }

\* the failed request at position i is followed by the sleep of its attempt and
\* then by a fresh fetch, as far as the call has come
BackoffThenFetch(m, i) ==
  /\ i = Len(log[m]) => (pc[m] = "sleep" /\ result[m] = NoResult)
  /\ i < Len(log[m])
     => log[m][i + 1] = [ op |-> "sleep",
                          duration |-> RETRY_SLEEP_MULTIPLIER * AttemptOf(m, i) ]
  /\ i + 1 = Len(log[m]) => (pc[m] = "get" /\ result[m] = NoResult)
  /\ i + 1 < Len(log[m]) => log[m][i + 2].op = "get"

\* C19: a failed fetch in atomic_update_with_retry is handled as a failed
\* commit is: it uses up its attempt, no commit is made in that attempt, the
\* sleep of the attempt and a fresh fetch follow when attempts remain, and on
\* the last attempt the call raises the fetch error.
C19_FetchFailureRetried ==
  \A m \in Machines :
    IsAtomicCall(m)
    => /\ \A i \in FailedBeforeLast(m, "get") : BackoffThenFetch(m, i)
       /\ \A i \in FailedBeforeLast(m, "patch") : BackoffThenFetch(m, i)
       /\ \A i \in Gets(m) :
            (~log[m][i].ok /\ AttemptOf(m, i) >= args[m].max_retries)
            => /\ AttemptOf(m, i) = args[m].max_retries
               /\ i = Len(log[m])
               /\ pc[m] = "done"
               /\ result[m].kind = "raise"
               /\ result[m].msg = "Failed to get issue body"

\* a call with max_retries = 3 whose first fetch failed, whose second attempt
\* failed at its commit and whose third fetch failed: it slept 5 and 10 and
\* raised the fetch error
C19_Witness ==
  \E m \in Machines :
    /\ IsAtomicCall(m)
    /\ args[m].max_retries = 3
    /\ Len(log[m]) = 6
    /\ log[m][1] = [ op |-> "get", ok |-> FALSE ]
    /\ log[m][2] = [ op |-> "sleep", duration |-> 5 ]
    /\ log[m][4].op = "patch"
    /\ log[m][5] = [ op |-> "sleep", duration |-> 10 ]
    /\ log[m][6] = [ op |-> "get", ok |-> FALSE ]
    /\ pc[m] = "done"
    /\ result[m].kind = "raise"
    /\ result[m].msg = "Failed to get issue body"

\* the call of m has made at most n fetches, n commits and n - 1 sleeps
AtMost(m, n) ==
  /\ Cardinality(Gets(m)) <= n
  /\ Cardinality(Patches(m)) <= n
  /\ Cardinality(Sleeps(m)) <= IF n = 0 THEN 0 ELSE n - 1

\* max_retries as range(max_retries) counts it
Attempts(m) == IF args[m].max_retries < 0 THEN 0 ELSE args[m].max_retries

\* C20: a call of atomic_update_with_retry makes at most max_retries fetches,
\* at most max_retries commits and at most max_retries - 1 sleeps whatever the
\* store answers, and it ends: it has then returned or raised.
C20_BoundedCall ==
  /\ [](\A m \in Machines :
          IsAtomicCall(m)
          => /\ AtMost(m, Attempts(m))
             /\ pc[m] = "done" <=> result[m].kind \in { "return", "raise" })
  /\ \A m \in Machines : IsAtomicCall(m) ~> pc[m] = "done"

\* a call with max_retries = 3 that used up its attempts: three fetches, three
\* commits, two sleeps, then the raise
C20_Witness ==
  \E m \in Machines :
    /\ IsAtomicCall(m)
    /\ args[m].max_retries = 3
    /\ Cardinality(Gets(m)) = 3
    /\ Cardinality(Patches(m)) = 3
    /\ Cardinality(Sleeps(m)) = 2
    /\ pc[m] = "done"
    /\ result[m].kind = "raise"

\* the body of the last request of m's call, a commit when the call returned True
CommittedBody(m) == log[m][Len(log[m])].body

\* C21: when atomic_update_with_retry has returned True, the instance's cached
\* body is the body it committed and its cached rows are the rows that parsing
\* that body gives.
C21_CacheFollowsCommit ==
  \A m \in Machines :
    (IsAtomicCall(m) /\ result[m] = Returned(TRUE))
    => /\ body[m] = CommittedBody(m)
       /\ software_updates[m] = get_software_update_rows_from_body(body[m])

\* the records main leaves in the trace when it handles an entry of its loop
IsDispatch(e) ==
  \/ e.ev = "run"
  \/ /\ e.ev = "log"
     /\ e.message \in { "Skipping apt", "Skipping scoop", "Unknown package manager" }

Dispatches == SelectSeq(trace, IsDispatch)

\* what the claim has main do with an entry: the worker of the running OS is
\* called, a worker of another OS is skipped with a warning
Expected(package_manager) ==
  IF package_manager = "apt"
  THEN IF environment = "Linux" THEN RunEvent("apt")
       ELSE LogEvent("warning", "Skipping apt")
  ELSE IF package_manager = "scoop"
  THEN IF environment = "Windows" THEN RunEvent("scoop")
       ELSE LogEvent("warning", "Skipping scoop")
  ELSE LogEvent("error", "Unknown package manager")

\* C22: main handles the entries of the host's list in order, each once: the
\* apt worker is called for an apt entry exactly when the environment is Linux,
\* the scoop worker for a scoop entry exactly when it is Windows, an entry of
\* the other OS gets one warning and no call; and the loop goes on to the next
\* entry, so that the process ends only when every entry has been handled.
C22_DispatchByOS ==
  LET handled == Len(listed) - Len(package_managers)
  IN  /\ Len(Dispatches) = handled
      /\ \A i \in 1..handled : Dispatches[i] = Expected(listed[i])
      /\ wpc \in { "finished", "crashed" } => package_managers = << >>

\* the call of m passed the EOL arguments
PassesEol(m) == IsAtomicCall(m) /\ "os_eol" \in DOMAIN args[m]

\* the call of m passed the EOL arguments for a row of a document with the EOL
\* column, the store failed no request, and the call is over
EolCallOver(m) ==
  /\ PassesEol(m)
  /\ pc[m] = "done"
  /\ faults = 0
  /\ initial_body_state[m] = Join(<< HeaderLine, RowH1Eol, RowH2 >>, << NL >>)

Range(f) == { f[i] : i \in DOMAIN f }

\* the cells of m's row in the stored document, when it has one row of 7 cells
\* with m's address
StoredCells(m) ==
  { Split(row_regex_match(line).markdown, PIPE) :
      line \in { l \in Range(Lines(issue_body)) :
                   /\ row_regex_match(l).matched
                   /\ row_regex_match(l).computer_name = << m >>
                   /\ CellCount(l) = 7 } }

\* C23: an atomic update that passes os_eol for a row of a document with the
\* EOL column commits the row with the passed annotation in its EOL cell and
\* with the passed counts.
C23_EolCellWritten ==
  \A m \in Machines :
    EolCallOver(m)
    => /\ result[m] = Returned(TRUE)
       /\ \E cells \in StoredCells(m) :
            /\ Strip(cells[6]) = args[m].upgraded
            /\ Strip(cells[7]) = args[m].failed
            /\ Strip(cells[8]) = args[m].os_eol

\* C24: with os_eol_critical = True the glyph written to the row is the stop
\* marker whatever the status, with os_eol_critical = False it is the glyph
\* of the status.
C24_CriticalGlyph ==
  \A m \in Machines :
    EolCallOver(m)
    => \E cells \in StoredCells(m) :
         Strip(cells[2]) = IF args[m].os_eol_critical THEN status_mapping.failed
                           ELSE StatusMappingGet(args[m].status)

\* the positions of the trace at which main calls the apt worker
AptRuns == { i \in 1..Len(trace) : trace[i] = RunEvent("apt") }

\* C25: started without root privileges, the apt worker's run() logs the error
\* and returns: between main's call and main's next step there is that one log
\* record, and no coordinator call, comment or package operation.
C25_NoRootNoWork ==
  ~root
  => \A i \in AptRuns :
       /\ i = Len(trace) => wpc = "apt_run"
       /\ i < Len(trace)
          => trace[i + 1] = LogEvent("error", "This script must be run as root.")
       /\ i + 1 = Len(trace) => wpc \in { "loop", "finished" }
       /\ i + 1 < Len(trace) => IsDispatch(trace[i + 2])
       /\ \A j \in 1..Len(trace) : trace[j].ev \notin { "call", "command" }

\* the apt worker was called without root privileges and has returned
C25_Witness ==
  /\ ~root
  /\ wpc = "finished"
  /\ trace = << RunEvent("apt"), LogEvent("error", "This script must be run as root.") >>

\* the invocations of 'scoop update' by the call of update_scoop_repos in
\* progress or last made: their positions in the trace
ReposCalls ==
  LET runs == { i \in 1..Len(trace) : trace[i] = RunEvent("scoop") }
  IN  { i \in 1..Len(trace) : /\ \A r \in runs : r < i
                              /\ trace[i].ev = "command"
                              /\ trace[i].name = "scoop update" }

ReposRaised == { i \in ReposCalls : trace[i].outcome = "raise" }

\* C26: update_scoop_repos invokes 'scoop update' at most 5 times; an
\* invocation that completes without raising is its last one and makes it
\* return True; it returns False only after 5 invocations that all raised; and
\* a call that has started returns.
C26_ReposBounded ==
  /\ [](frame.fn = "update_scoop_repos"
        => /\ Cardinality(ReposCalls) <= 5
           /\ \A i \in ReposCalls \ ReposRaised : \A j \in ReposCalls : j <= i
           /\ ReposCalls # ReposRaised => (frame.done /\ frame.value)
           /\ frame.done
              => /\ frame.value <=> ReposCalls # ReposRaised
                 /\ ~frame.value => Cardinality(ReposRaised) = 5)
  /\ (wpc = "update_scoop_repos_loop")
       ~> (frame.fn = "update_scoop_repos" /\ frame.done /\ wpc # "update_scoop_repos_loop")

\* update_scoop_repos returned False after five invocations that raised
C26_Witness ==
  /\ frame.fn = "update_scoop_repos"
  /\ frame.done
  /\ ~frame.value
  /\ Cardinality(ReposRaised) = 5

\* the answers of the API to the requests made so far
Answered == [ i \in 1..Len(trace) |-> trace[i].response ]

\* C27: with the answers 500, 500 and then 200 with an EOL date, the call of
\* get_os_eol_date_from_api for an OS with a product returns the date of the
\* third answer after exactly 3 requests.
C27_ApiRetried ==
  \A date \in Dates :
    ( /\ frame.fn = "get_os_eol_date_from_api"
      /\ frame.done
      /\ product_mapping(frame.os_name) # "None"
      /\ Answered \o frame.responses =
           << [ status_code |-> 500, eol |-> "" ], [ status_code |-> 500, eol |-> "" ],
              [ status_code |-> 200, eol |-> date ] >> )
    => /\ frame.value = date
       /\ Len(trace) = 3

\* the lines of document b that carry the address of machine o
LinesOf(b, o) ==
  SelectSeq(Lines(b),
            LAMBDA line : HasAddress(line, [ computer_name |-> << o >>,
                                             package_manager |-> << "apt" >> ]))

\* the document update_issue_body fetched at its start, while its PATCH is
\* pending: the last request of the machine
FetchedAtPush(m) == log[m][Len(log[m])].body

\* C28: a push through update_issue_body by a machine that has a row of its
\* own and mutated that row only, once the store accepts it, leaves the line
\* of every other machine's address in the store equal to that line in
\* the document the push fetched at its start.
C28_PushKeepsOthers ==
  [][ \A m \in Machines :
        ( /\ pc[m] = "push"
          /\ FirstIndex(software_updates[m], << m >>, << "apt" >>) # 0
          /\ result'[m] = Returned(TRUE) )
        => \A o \in Machines \ { m } :
             LinesOf(issue_body', o) = LinesOf(FetchedAtPush(m), o)
    ]_vars

\* the request at position i of m's log failed
FailedRequest(m, i) ==
  /\ log[m][i].op \in { "get", "patch" }
  /\ ~log[m][i].ok

\* the commit at position i of m's log was accepted
Committed(m, i) ==
  /\ log[m][i].op = "patch"
  /\ log[m][i].ok

\* C29: in a call of atomic_update_with_retry the sleep that follows the k-th
\* failed attempt lasts k times RETRY_SLEEP_MULTIPLIER, for every
\* k < max_retries: a sleep comes only after an attempt that failed and is not
\* the last, every attempt after the first comes after a sleep, a call that
\* raised has made its last attempt and did not sleep after it, and an
\* accepted commit ends the call with no sleep.
C29_LinearBackoff ==
  \A m \in Machines :
    IsAtomicCall(m)
    => /\ \A i \in Sleeps(m) :
            /\ i > 1
            /\ log[m][i - 1].op # "sleep"
            /\ ~Committed(m, i - 1)
            /\ AttemptOf(m, i) < args[m].max_retries
            /\ log[m][i].duration = AttemptOf(m, i) * RETRY_SLEEP_MULTIPLIER
       /\ \A i \in Gets(m) : i > 1 => log[m][i - 1].op = "sleep"
       /\ pc[m] = "sleep" => AttemptOf(m, Len(log[m])) < args[m].max_retries
       /\ (pc[m] = "done" /\ result[m].kind = "raise" /\ log[m] # << >>)
          => /\ AttemptOf(m, Len(log[m])) = args[m].max_retries
             /\ log[m][Len(log[m])].op # "sleep"
       /\ \A i \in Patches(m) :
            log[m][i].ok => (i = Len(log[m]) /\ pc[m] = "done")

\* a call with max_retries = 3 slept 5 tenths of a second after its first
\* failed attempt and 10 after its second, and its third failed attempt ended
\* it with no third sleep
C29_Witness ==
  \E m \in Machines :
    /\ IsAtomicCall(m)
    /\ args[m].max_retries = 3
    /\ pc[m] = "done"
    /\ Len(log[m]) = 7
    /\ FailedRequest(m, 1)
    /\ log[m][2] = [ op |-> "sleep", duration |-> RETRY_SLEEP_MULTIPLIER ]
    /\ log[m][4].op = "patch"
    /\ FailedRequest(m, 4)
    /\ log[m][5] = [ op |-> "sleep", duration |-> 2 * RETRY_SLEEP_MULTIPLIER ]
    /\ log[m][7].op = "patch"
    /\ FailedRequest(m, 7)
    /\ Sleeps(m) = { 2, 5 }

\* C30: a commit response is taken as success exactly when its status is a 2xx
\* status: the call then ends and returns True; on every other status the
\* attempt has failed, and the call retries or, on its last attempt, raises.
C30_SuccessIff2xx ==
  \A i \in Patches(Caller) :
    "status_code" \in DOMAIN log[Caller][i]
    => ( log[Caller][i].status_code \in 200..299
         <=> /\ i = Len(log[Caller])
             /\ pc[Caller] = "done"
             /\ result[Caller] = Returned(TRUE) )

\* C31: a call of atomic_update_with_retry that raises leaves the instance's
\* cached body and cached rows as they were before the call: no step of the
\* call but an accepted commit changes them, and when the call raises they are
\* the body and the rows of the construction, the call being the instance's
\* first operation.
C31_RaiseKeepsCache ==
  [][ \A m \in Machines :
        ( /\ args'[m].op = "atomic_update_with_retry"
          /\ result'[m] # Returned(TRUE) )
        => /\ body'[m] = body[m]
           /\ software_updates'[m] = software_updates[m]
           /\ result'[m].kind = "raise"
              => /\ body'[m] = initial_body_state[m]
                 /\ software_updates'[m]
                      = get_software_update_rows_from_body(initial_body_state[m])
    ]_vars

\* a call raised on its last attempt, whose fetch had returned a document
\* with the row and with the other machine's commit, other than the cached one
C31_Witness ==
  \E m \in Machines :
    /\ IsAtomicCall(m)
    /\ pc[m] = "done"
    /\ result[m].kind = "raise"
    /\ result[m].msg = "Failed to update issue body"
    /\ current_body[m] # body[m]
    /\ current_software_updates[m] # software_updates[m]

\* C32: a call of atomic_update_with_retry returns False exactly when
\* max_retries <= 0, and then it has made no fetch, no commit and no sleep and
\* raised nothing; with max_retries >= 1 a call that is over has returned True
\* after an accepted commit or has raised.
C32_FalseIffNoAttempts ==
  IsAtomicCall(Caller)
  => /\ result[Caller] = Returned(FALSE) <=> args[Caller].max_retries <= 0
     /\ args[Caller].max_retries <= 0
        => /\ pc[Caller] = "done"
           /\ log[Caller] = << >>
           /\ result[Caller].kind = "return"
     /\ (args[Caller].max_retries >= 1 /\ pc[Caller] = "done")
        => \/ /\ result[Caller] = Returned(TRUE)
              /\ Committed(Caller, Len(log[Caller]))
           \/ result[Caller].kind = "raise"

\* a call with max_retries = -1 returned False at once
C32_Witness ==
  /\ IsAtomicCall(Caller)
  /\ args[Caller].max_retries = -1
  /\ pc[Caller] = "done"
  /\ result[Caller] = Returned(FALSE)
  /\ log[Caller] = << >>

\* the positions of the accepted commits in m's log
Commits(m) == { i \in Patches(m) : log[m][i].ok }

\* C33: with a store that accepts every request and no other writer, the same
\* call of atomic_update_with_retry made again leaves the stored document
\* byte-identical to the document after the first call.
C33_SecondCallChangesNothing ==
  /\ \A i, j \in Commits(Caller) : log[Caller][i].body = log[Caller][j].body
  /\ Commits(Caller) # { } => issue_body = log[Caller][Len(log[Caller])].body

\* the same call returned True twice on a document of several lines that its
\* first commit changed
C33_Witness ==
  /\ Cardinality(Commits(Caller)) = 2
  /\ pc[Caller] = "done"
  /\ result[Caller] = Returned(TRUE)
  /\ Len(Lines(initial_body_state[Caller])) >= 2
  /\ log[Caller][2].body # initial_body_state[Caller]

\* the document a call with arguments a stores when its fetch returns b and
\* its commit is accepted (lines 70-99); b itself when the row is absent
Effect(b, a) ==
  Let(b, LAMBDA fetched :
  Let(FindAndUpdate(get_software_update_rows_from_body(fetched), a),
      LAMBDA found : IF found.updated THEN build_updated_body(fetched, found.rows)
                                      ELSE fetched))

\* the call of m is over and returned True
ReturnedTrue(m) == IsAtomicCall(m) /\ pc[m] = "done" /\ result[m] = Returned(TRUE)

\* C34: with a store that accepts every request, the calls of
\* atomic_update_with_retry for two different addresses, each over before the
\* next starts, store the same document in either order: whichever call ran
\* first, the stored document is the effect of the call for H2 on the effect
\* of the call for H1 on the initial document, and also the effect of the call
\* for H1 on the effect of the call for H2.
C34_SequentialCallsCommute ==
  (\A m \in Machines : ReturnedTrue(m))
  => \A b \in { initial_body_state["H1"] } :
       /\ issue_body = Effect(Effect(b, args["H1"]), args["H2"])
       /\ issue_body = Effect(Effect(b, args["H2"]), args["H1"])

\* both calls returned True, the call for H2 first, on a document of three
\* lines, and each commit changed the document
C34_Witness ==
  /\ \A m \in Machines : ReturnedTrue(m)
  /\ Len(Lines(initial_body_state["H1"])) = 3
  /\ log["H2"][1].body = initial_body_state["H1"]
  /\ log["H2"][2].body # log["H2"][1].body
  /\ log["H1"][1].body = log["H2"][2].body
  /\ log["H1"][2].body # log["H1"][1].body

\* the positions of the trace at which the command was run
Commands(name) ==
  { i \in 1..Len(trace) : trace[i].ev = "command" /\ trace[i].name = name }

\* a status write of the apt worker that returned
AptWritten(status, upgraded, failed) ==
  CallEvent("atomic_update_with_retry", "apt", status, upgraded, failed, "return")

\* C35: in the apt worker's cycle the write of running with empty counts has
\* returned before apt-get update is run; dist-upgrade is started right after
\* the comment was posted and the write of running with the planned count
\* returned; the reboot command comes right after the final status write
\* returned; and when the simulation reports nothing to upgrade, install or
\* remove, the next step is the write of success with counts "0" and "0", and
\* the run has no comment, no dist-upgrade and no reboot.
C35_AptCycleOrder ==
  /\ \A i \in Commands("apt-get update") :
       \E j \in 1..(i - 1) : trace[j] = AptWritten("running", << >>, << >>)
  /\ \A i \in Commands("apt-get dist-upgrade") :
       /\ i > 2
       /\ trace[i - 2] = CommandEvent("comment", "return")
       /\ trace[i - 1] = AptWritten("running", str(to_upgrade), << >>)
  /\ \A i \in Commands("shutdown -r 0") :
       /\ i > 1
       /\ trace[i - 1].ev = "call"
       /\ trace[i - 1].outcome = "return"
       /\ trace[i - 1].status = (IF upgrade_result THEN "success" ELSE "failed")
       /\ Commands("apt-get dist-upgrade") # { }
       /\ \A k \in Commands("apt-get dist-upgrade") : k < i - 1
  /\ \A i \in Commands("apt-get update") :
       ( /\ trace[i].outcome = "return"
         /\ \A k \in Commands("apt-get update") : i <= k
         /\ to_upgrade = 0
         /\ ~to_install_or_remove )
       => /\ i = Len(trace) => wpc = "apt_write_no_updates"
          /\ i < Len(trace)
             => \E outcome \in Outcomes :
                  trace[i + 1] = CallEvent("atomic_update_with_retry", "apt", "success",
                                           << "0" >>, << "0" >>, outcome)
          /\ Commands("comment") = { }
          /\ Commands("apt-get dist-upgrade") = { }
          /\ Commands("shutdown -r 0") = { }

\* a full cycle with two planned packages went through to the reboot
C35_Witness ==
  /\ wpc = "finished"
  /\ to_upgrade = 2
  /\ Len(trace) = 10
  /\ trace[3] = AptWritten("running", << >>, << >>)
  /\ trace[5] = CommandEvent("comment", "return")
  /\ trace[6] = AptWritten("running", << "2" >>, << >>)
  /\ trace[7] = CommandEvent("apt-get dist-upgrade", "return")
  /\ trace[9].ev = "call"
  /\ trace[10] = CommandEvent("shutdown -r 0", "return")

\* int(s) for the count strings the apt worker writes
Number(s) == CHOOSE n \in (-MaxPackages)..MaxPackages : str(n) = s

\* the final status writes of the trace: the call that follows dist-upgrade and
\* the second apt-get update
FinalWrites ==
  { k + 2 : k \in { i \in Commands("apt-get dist-upgrade") :
                      /\ i + 2 <= Len(trace)
                      /\ trace[i + 1].outcome = "return" } }

\* C36: in the apt worker's final status write the upgraded count plus the
\* failed count is the number of packages planned before dist-upgrade, the
\* failed count is the number of packages still upgradable afterwards, and the
\* status is success exactly when dist-upgrade exited with code 0, whatever
\* the failed count.
C36_FinalCounts ==
  \A i \in FinalWrites :
    /\ trace[i].ev = "call"
    /\ trace[i].fn = "atomic_update_with_retry"
    /\ Number(trace[i].upgraded) + Number(trace[i].failed) = to_upgrade
    /\ Number(trace[i].failed) = upgraded_to_upgrade
    /\ trace[i].status = "success" <=> upgrade_result
    /\ trace[i].status = "failed" <=> ~upgrade_result

\* dist-upgrade exited with code 0 with one of two planned packages still
\* upgradable: the final write has status success, upgraded "1" and failed "1"
C36_Witness ==
  /\ FinalWrites # { }
  /\ upgrade_result
  /\ to_upgrade = 2
  /\ upgraded_to_upgrade = 1
  /\ \E i \in FinalWrites : trace[i] = AptWritten("success", << "1" >>, << "1" >>)

====
